---- MODULE Spec2Model ----
(***************************************************************************)
(* State-machine model of the PPE edge controller: the ViolationEngine     *)
(* (services/violation_engine.py) and the CameraStream worker              *)
(* (services/camera_manager.py).                                           *)
(*                                                                         *)
(* Time is counted in tenths of a second (datetime.now() read as an        *)
(* integer number of 0.1 s ticks), so violation_debounce_seconds = 2.0 is  *)
(* 20 and violation_cooldown_seconds = 5.0 is 50.                          *)
(*                                                                         *)
(* The asyncio event loop runs one coroutine at a time and switches only   *)
(* at a suspending await.  Every action below is therefore one synchronous *)
(* block of the code: from a resumption to the next suspension.            *)
(***************************************************************************)
EXTENDS Integers, Sequences, FiniteSets, TLC

VARIABLES
    now,                     \* the wall clock read by datetime.now()
    active_session_id,       \* ViolationEngine.active_session_id
    required_ppe,            \* ViolationEngine.required_ppe
    people,                  \* ViolationEngine.people: person_id -> tracker
    violation_start_times,   \* ViolationEngine.violation_start_times
    active_violations,       \* ViolationEngine.active_violations (its keys)
    violation_cooldowns,     \* ViolationEngine.violation_cooldowns
    call,                    \* per camera: the suspended process_detections call
    alerts,                  \* history: per key, the last call of CloudSync.upload_violation
    streak,                  \* history: per key, the current run of frames lacking the PPE
    rearm,                   \* history: per alerted key, what was seen since its last alert
    session_since,           \* history: when the session in force was started from no session
    scen,                    \* history: progress through the worked example of the spec
    lastOp,                  \* history: the operation that made the last step
    stream,                  \* per camera: the CameraStream object and its run() position
    hist,                    \* history: per camera counters of reads, forwards, connects
    svc                      \* EdgeControllerService, CameraManager's maps, the session poller

engineVars == <<active_session_id, required_ppe, people, violation_start_times,
                active_violations, violation_cooldowns, call>>
historyVars == <<alerts, streak, rearm, session_since, scen, lastOp>>
streamVars == <<stream, hist, svc>>
vars == <<now, engineVars, historyVars, streamVars>>

None == "None"

----------------------------------------------------------------------------
(* Bounds of the model.                                                    *)

MaxTime == 100
MaxTimeShort == 20
MaxTimeExample == 72
MaxTimeCamera == 60
MaxReads == 5
\* the largest pixel coordinate of the boxes _calculate_iou is applied to
MaxCoord == 3
FileLen == 2

(* Program constants (core/config.py defaults; times in 0.1 s).            *)

violation_debounce_seconds == 20
violation_cooldown_seconds == 50
TrackerSilence == 50
iou_threshold_num == 3
iou_threshold_den == 10
fps == 10
NativeRate == 30
max_reconnect_attempts == 10

Cameras == {"cam1", "cam2"}

\* required_ppe's keys in dict order, also the PPE classes of process_detections
PPE_CLASSES == <<"goggles", "lab_coat", "gloves", "helmet">>

Kinds == {PPE_CLASSES[i] : i \in 1..Len(PPE_CLASSES)}

----------------------------------------------------------------------------
(* Helpers for dicts (functions with a changing domain).                   *)

Put(f, k, v) == [x \in (DOMAIN f) \cup {k} |-> IF x = k THEN v ELSE f[x]]

Del(f, k) == [x \in (DOMAIN f) \ {k} |-> f[x]]

EmptyMap == [x \in {} |-> 0]

Max2(a, b) == IF a >= b THEN a ELSE b

Min2(a, b) == IF a <= b THEN a ELSE b

\* str.lower() on the class labels the detector can produce
Lower(s) ==
    CASE s = "Person" -> "person"
      [] s = "Goggles" -> "goggles"
      [] s = "Lab_Coat" -> "lab_coat"
      [] s = "Gloves" -> "gloves"
      [] s = "Helmet" -> "helmet"
      [] OTHER -> s

\* int(x / 2) for an integer x: Python's int() truncates toward zero
TruncHalf(n) == IF n >= 0 THEN n \div 2 ELSE 0 - ((0 - n) \div 2)

----------------------------------------------------------------------------
(* ViolationEngine: pure helpers.                                          *)

\* _calculate_iou as the exact fraction <<numerator, denominator>>
calculate_iou_UnionOfAreas(b1, b2) ==
    LET x1_i == Max2(b1[1], b2[1])
        y1_i == Max2(b1[2], b2[2])
        x2_i == Min2(b1[3], b2[3])
        y2_i == Min2(b1[4], b2[4])
        intersection == (x2_i - x1_i) * (y2_i - y1_i)
        area1 == (b1[3] - b1[1]) * (b1[4] - b1[2])
        area2 == (b2[3] - b2[1]) * (b2[4] - b2[2])
        union == area1 + area2
    IN  IF x2_i <= x1_i \/ y2_i <= y1_i THEN <<0, 1>>
        ELSE IF union = 0 THEN <<0, 1>>
        ELSE <<intersection, union>>

calculate_iou(b1, b2) ==
    LET x1_i == Max2(b1[1], b2[1])
        y1_i == Max2(b1[2], b2[2])
        x2_i == Min2(b1[3], b2[3])
        y2_i == Min2(b1[4], b2[4])
        intersection == (x2_i - x1_i) * (y2_i - y1_i)
        area1 == (b1[3] - b1[1]) * (b1[4] - b1[2])
        area2 == (b2[3] - b2[1]) * (b2[4] - b2[2])
        union == area1 + area2 - intersection
    IN  IF x2_i <= x1_i \/ y2_i <= y1_i THEN <<0, 1>>
        ELSE IF union = 0 THEN <<0, 1>>
        ELSE <<intersection, union>>

\* iou >= self.config.iou_threshold, on the fraction (its denominator is positive)
IouAtLeastThreshold_AnyOverlap(iou) == iou[1] > 0

IouAtLeastThreshold(iou) ==
    iou[1] * iou_threshold_den >= iou_threshold_num * iou[2]

\* tuple unpacking "x1, y1, x2, y2 = bbox" raises unless len(bbox) = 4
Unpackable(bbox) == Len(bbox) = 4

\* _match_ppe_to_person: [raised, matched]; an empty bbox is skipped, a bbox
\* that cannot be unpacked raises out of _calculate_iou
RECURSIVE match_ppe_to_person(_, _)
match_ppe_to_person(person_bbox, ppe_detections) ==
    IF ppe_detections = <<>> THEN [raised |-> FALSE, matched |-> <<>>]
    ELSE LET ppe_det == Head(ppe_detections)
             rest == match_ppe_to_person(person_bbox, Tail(ppe_detections))
         IN  IF ppe_det.bbox = <<>> THEN rest
             ELSE IF ~Unpackable(ppe_det.bbox)
                  THEN [raised |-> TRUE, matched |-> <<>>]
             ELSE IF rest.raised THEN rest
             ELSE IF IouAtLeastThreshold(calculate_iou(person_bbox, ppe_det.bbox))
                  THEN [raised |-> FALSE, matched |-> <<ppe_det>> \o rest.matched]
             ELSE rest

\* _generate_person_id: f"{camera_id}_{int(center_x)}_{int(center_y)}"; the
\* formatted string is kept as the tuple of its three fields
generate_person_id(bbox, camera_id) ==
    <<camera_id, TruncHalf(bbox[1] + bbox[3]), TruncHalf(bbox[2] + bbox[4])>>

\* PersonTracker.has_ppe on the tracker's ppe lists (grouped by lower-cased class)
has_ppe(tracker, required_class) ==
    \E i \in 1..Len(tracker.ppe) : Lower(tracker.ppe[i].class) = Lower(required_class)

\* (a variant whose keys name one camera whatever the caller)
ViolationKey_OneCamera(camera_id, person_id, ppe_class) == <<"cam1", person_id, ppe_class>>

\* f"{camera_id}_{person_id}_{ppe_class}" kept as the tuple of its fields
ViolationKey(camera_id, person_id, ppe_class) == <<camera_id, person_id, ppe_class>>

IsPerson(d) == Lower(d.class) = "person"

IsPPE(d) == Lower(d.class) \in Kinds

----------------------------------------------------------------------------
(* ViolationEngine.process_detections: the tracking phase (lines 178-220). *)

\* PersonTracker.update_ppe (lines 31-37) on the tracker's detections: "self.ppe.clear()",
\* then every detection is appended under its class
update_ppe_NoClear(ppe, detections) == ppe \o detections

update_ppe(ppe, detections) ==
    LET cleared == <<>>
    IN  cleared \o detections

\* the detections a person's tracker holds before the frame; a new
\* PersonTracker holds none
TrackedPpe(trackers, person_id) ==
    IF person_id \in DOMAIN trackers THEN trackers[person_id].ppe ELSE <<>>

\* PersonTracker(person_id, bbox) followed by update_ppe(matched), or the
\* update of an existing tracker: both leave bbox, ppe and last_seen like this
UpdatedTracker(person_bbox, ppe) ==
    [bbox |-> person_bbox, ppe |-> ppe, last_seen |-> now]

\* The loop over people_detections: T = [people, current, raised, matched],
\* where current lists the keys of current_people in insertion order and
\* matched the box and matched_ppe of every person detection tracked
RECURSIVE TrackPeople(_, _, _, _)
TrackPeople(T, camera_id, people_detections, ppe_detections) ==
    IF people_detections = <<>> \/ T.raised THEN T
    ELSE LET person_bbox == Head(people_detections).bbox
             rest == Tail(people_detections)
         IN  IF person_bbox = <<>>
             THEN TrackPeople(T, camera_id, rest, ppe_detections)
             ELSE IF ~Unpackable(person_bbox)
             THEN [T EXCEPT !.raised = TRUE]
             ELSE LET person_id == generate_person_id(person_bbox, camera_id)
                      m == match_ppe_to_person(person_bbox, ppe_detections)
                  IN  IF m.raised THEN [T EXCEPT !.raised = TRUE]
                      ELSE TrackPeople(
                             [people |-> Put(T.people, person_id,
                                             UpdatedTracker(person_bbox,
                                                 update_ppe(TrackedPpe(T.people, person_id),
                                                            m.matched))),
                              current |-> IF \E i \in 1..Len(T.current) :
                                                  T.current[i] = person_id
                                          THEN T.current
                                          ELSE Append(T.current, person_id),
                              raised |-> FALSE,
                              matched |-> Append(T.matched,
                                                 [bbox |-> person_bbox, ppe |-> m.matched])],
                             camera_id, rest, ppe_detections)

\* a tracker is expired when it was not seen in this frame and has been silent
\* for more than 5.0 seconds
Expired(tracker, seenNow) ==
    ~seenNow /\ (now - tracker.last_seen) > TrackerSilence

\* "Remove old people": the trackers that survive the sweep
RemoveOldPeople(P, current) ==
    LET seen == {current[i] : i \in 1..Len(current)}
        expired_people == {pid \in DOMAIN P : Expired(P[pid], pid \in seen)}
    IN  [pid \in (DOMAIN P) \ expired_people |-> P[pid]]

----------------------------------------------------------------------------
(* ViolationEngine._check_violations and _trigger_violation_alert.         *)

\* The three violation tables as one value: T = [st, av, cd]
Tables(st, av, cd) == [st |-> st, av |-> av, cd |-> cd]

\* "if violation_key in self.violation_cooldowns: if now < ...: continue"
InCooldown_Never(cd, key, pnow) == FALSE

InCooldown(cd, key, pnow) == key \in DOMAIN cd /\ pnow < cd[key]

\* "if violation_duration >= self.config.violation_debounce_seconds"
DebounceElapsed_Late(violation_duration) ==
    violation_duration > violation_debounce_seconds

DebounceElapsed(violation_duration) ==
    violation_duration >= violation_debounce_seconds

\* "Person has required PPE, clear violation" (lines 275-279)
ClearViolation_KeepsStart(T, key) ==
    [st |-> T.st, av |-> T.av \ {key}]

ClearViolation_KeepsActive(T, key) ==
    [st |-> IF key \in DOMAIN T.st THEN Del(T.st, key) ELSE T.st, av |-> T.av]

ClearViolation(T, key) ==
    [st |-> IF key \in DOMAIN T.st THEN Del(T.st, key) ELSE T.st, av |-> T.av \ {key}]

\* One pass of the loop body of _check_violations for a required ppe_class
\* (lines 241-279): the tables afterwards, and whether the alert is triggered
CheckKey_KeepsExpired(T, key, has, pnow) ==
    LET cd1 == T.cd
    IN  IF InCooldown(T.cd, key, pnow)
        THEN [st |-> T.st, av |-> T.av, cd |-> T.cd, alert |-> FALSE]
        ELSE IF ~has
        THEN LET st1 == IF key \notin DOMAIN T.st THEN Put(T.st, key, pnow) ELSE T.st
                 violation_duration == pnow - st1[key]
             IN  [st |-> st1, av |-> T.av, cd |-> cd1,
                  alert |-> DebounceElapsed(violation_duration) /\ key \notin T.av]
        ELSE LET cleared == ClearViolation(T, key)
             IN  [st |-> cleared.st, av |-> cleared.av, cd |-> cd1, alert |-> FALSE]

CheckKey_ClearsInCooldown(T, key, has, pnow) ==
    LET cd1 == IF key \in DOMAIN T.cd /\ ~InCooldown(T.cd, key, pnow)
               THEN Del(T.cd, key) ELSE T.cd
    IN  IF InCooldown(T.cd, key, pnow) /\ ~has
        THEN [st |-> T.st, av |-> T.av, cd |-> T.cd, alert |-> FALSE]
        ELSE IF ~has
        THEN LET st1 == IF key \notin DOMAIN T.st THEN Put(T.st, key, pnow) ELSE T.st
                 violation_duration == pnow - st1[key]
             IN  [st |-> st1, av |-> T.av, cd |-> cd1,
                  alert |-> DebounceElapsed(violation_duration) /\ key \notin T.av]
        ELSE LET cleared == ClearViolation(T, key)
             IN  [st |-> cleared.st, av |-> cleared.av, cd |-> cd1, alert |-> FALSE]

CheckKey(T, key, has, pnow) ==
    LET cd1 == IF key \in DOMAIN T.cd THEN Del(T.cd, key) ELSE T.cd
    IN  IF InCooldown(T.cd, key, pnow)
        THEN [st |-> T.st, av |-> T.av, cd |-> T.cd, alert |-> FALSE]
        ELSE IF ~has
        THEN LET st1 == IF key \notin DOMAIN T.st THEN Put(T.st, key, pnow) ELSE T.st
                 violation_duration == pnow - st1[key]
             IN  [st |-> st1, av |-> T.av, cd |-> cd1,
                  alert |-> DebounceElapsed(violation_duration) /\ key \notin T.av]
        ELSE LET cleared == ClearViolation(T, key)
             IN  [st |-> cleared.st, av |-> cleared.av, cd |-> cd1, alert |-> FALSE]

\* _trigger_violation_alert up to its await (lines 308-321): mark the key
\* active and set its cooldown from a fresh datetime.now()
TriggerViolationAlert_NoCooldown(T, key) ==
    [st |-> T.st, av |-> T.av \cup {key}, cd |-> T.cd]

TriggerViolationAlert_AfterUpload(T, key) == T

TriggerViolationAlert_NotActive(T, key) ==
    [st |-> T.st, av |-> T.av,
     cd |-> Put(T.cd, key, now + violation_cooldown_seconds)]

TriggerViolationAlert(T, key) ==
    [st |-> T.st, av |-> T.av \cup {key},
     cd |-> Put(T.cd, key, now + violation_cooldown_seconds)]

\* the arguments of the upload_violation call (lines 324-331), with the time
\* of the call, the frame time of the evaluation and the call's number for the key
AlertRecord(key, pnow, log) ==
    [t |-> now, pnow |-> pnow, session |-> active_session_id,
     n |-> IF key \in DOMAIN log THEN log[key].n + 1 ELSE 1]

----------------------------------------------------------------------------
(* History kept beside the engine (no code reads it).                      *)

\* the key of the worked example: camera cam1, the person centred at (2,2), goggles
ExampleKey == <<"cam1", <<"cam1", 2, 2>>, "goggles">>

ExampleTimes == <<0, 21, 30, 72>>

ExampleOff == [on |-> FALSE, ok |-> TRUE, seen |-> <<>>, alertsAt |-> <<>>]

ExampleOn == [on |-> TRUE, ok |-> TRUE, seen |-> <<>>, alertsAt |-> <<>>]

ExampleBroken == [on |-> TRUE, ok |-> FALSE, seen |-> <<>>, alertsAt |-> <<>>]

\* the run of evaluations of a key that all show the PPE missing, started when
\* the key had no entry in any table
ObserveStreak(sk, key, has, pnow, hadState, alerted) ==
    IF has THEN (IF key \in DOMAIN sk THEN Del(sk, key) ELSE sk)
    ELSE IF key \in DOMAIN sk
    THEN Put(sk, key,
             [t0 |-> sk[key].t0,
              over |-> IF sk[key].over = {} /\ pnow - sk[key].t0 >= violation_debounce_seconds
                       THEN {pnow} ELSE sk[key].over,
              alertsAt |-> IF alerted THEN Append(sk[key].alertsAt, pnow)
                           ELSE sk[key].alertsAt])
    ELSE IF ~hadState
    THEN Put(sk, key,
             [t0 |-> pnow,
              over |-> IF 0 >= violation_debounce_seconds THEN {pnow} ELSE {},
              alertsAt |-> IF alerted THEN <<pnow>> ELSE <<>>])
    ELSE sk

\* the histories rearm and session_since are kept only by the specifications
\* that start with them on
HistoryKept == session_since >= 0

\* what the evaluations of a key have shown since its last alert: until is the
\* cooldown deadline the alert set, has whether an evaluation since showed the
\* PPE, t1 the frame time of the first evaluation of the current run of
\* evaluations that show the PPE missing, begun after the PPE was shown and
\* the deadline had passed, overdue whether such a run has lasted
\* violation_debounce_seconds without an alert
ObserveRearm(rm, key, has, pnow, alerted, cd) ==
    IF ~HistoryKept THEN rm
    ELSE IF alerted
    THEN Put(rm, key, [until |-> cd[key], has |-> FALSE, t1 |-> {}, overdue |-> FALSE])
    ELSE IF key \notin DOMAIN rm THEN rm
    ELSE IF has THEN Put(rm, key, [rm[key] EXCEPT !.has = TRUE, !.t1 = {}])
    ELSE IF rm[key].has /\ pnow >= rm[key].until
    THEN LET t1 == IF rm[key].t1 = {} THEN {pnow} ELSE rm[key].t1
         IN  Put(rm, key, [rm[key] EXCEPT
                             !.t1 = t1,
                             !.overdue = @ \/ \E t \in t1 :
                                                 pnow - t >= violation_debounce_seconds])
    ELSE rm

\* the frames of the worked example seen so far, in order, and the frame times
\* of the alerts they raised; ok is lost by any other evaluation of the key
ObserveExample(sc, key, has, pnow, alerted) ==
    IF ~sc.on \/ ~sc.ok \/ key # ExampleKey THEN sc
    ELSE IF has \/ Len(sc.seen) >= Len(ExampleTimes) THEN ExampleBroken
    ELSE IF pnow = ExampleTimes[Len(sc.seen) + 1]
    THEN [sc EXCEPT !.seen = Append(sc.seen, pnow),
                    !.alertsAt = IF alerted THEN Append(@, pnow) ELSE @]
    ELSE ExampleBroken

EvalRecord(key, has, pnow, T, T2, alerted, log) ==
    [key |-> key, has |-> has, pnow |-> pnow,
     prev |-> IF key \in DOMAIN log THEN {log[key]} ELSE {},
     pre_st |-> IF key \in DOMAIN T.st THEN {T.st[key]} ELSE {},
     pre_av |-> key \in T.av,
     pre_cd |-> IF key \in DOMAIN T.cd THEN {T.cd[key]} ELSE {},
     post_st |-> IF key \in DOMAIN T2.st THEN {T2.st[key]} ELSE {},
     post_av |-> key \in T2.av,
     post_cd |-> IF key \in DOMAIN T2.cd THEN {T2.cd[key]} ELSE {},
     alerted |-> alerted]

----------------------------------------------------------------------------
(* The loop "for person_id, tracker in current_people.items(): await       *)
(* self._check_violations(...)" from one resumption to the next suspension.*)
(* S = [st, av, cd, alerts, streak, rearm, scen, evals, call]; persons are *)
(* items of current_people still to check, the first one being checked at  *)
(* required_ppe item k with the datetime.now() pnow read at line 234.      *)

\* gate is history: the session id and the required set that were in force
\* when the call passed its session gate (no code keeps them)
NoGate == [sid |-> None, req |-> {}]

IdleCall == [pc |-> "idle", persons |-> <<>>, k |-> 0, pnow |-> 0, gate |-> NoGate]

\* "if not required: continue" (lines 238-239)
NotRequired_Never(ppe_class) == FALSE

NotRequired(ppe_class) == ~required_ppe[ppe_class]

RECURSIVE CheckViolations(_, _, _, _, _)
CheckViolations(S, camera_id, persons, k, pnow) ==
    IF persons = <<>> THEN [S EXCEPT !.call = IdleCall]
    ELSE IF k > Len(PPE_CLASSES)
    THEN CheckViolations(S, camera_id, Tail(persons), 1, now)
    ELSE IF NotRequired(PPE_CLASSES[k])
    THEN CheckViolations(S, camera_id, persons, k + 1, pnow)
    ELSE LET ppe_class == PPE_CLASSES[k]
             key == ViolationKey(camera_id, persons[1].pid, ppe_class)
             has == has_ppe(persons[1].tracker, ppe_class)
             T == Tables(S.st, S.av, S.cd)
             r == CheckKey(T, key, has, pnow)
             T2 == IF r.alert THEN TriggerViolationAlert(r, key)
                   ELSE Tables(r.st, r.av, r.cd)
             hadState == key \in DOMAIN S.st \/ key \in S.av \/ key \in DOMAIN S.cd
             S2 == [st |-> T2.st, av |-> T2.av, cd |-> T2.cd,
                    alerts |-> IF r.alert
                               THEN Put(S.alerts, key, AlertRecord(key, pnow, S.alerts))
                               ELSE S.alerts,
                    streak |-> ObserveStreak(S.streak, key, has, pnow, hadState, r.alert),
                    rearm |-> ObserveRearm(S.rearm, key, has, pnow, r.alert, T2.cd),
                    scen |-> ObserveExample(S.scen, key, has, pnow, r.alert),
                    evals |-> S.evals \cup {EvalRecord(key, has, pnow, T, T2, r.alert, S.alerts)},
                    call |-> S.call]
         IN  IF r.alert
             THEN [S2 EXCEPT !.call = [pc |-> "upload", persons |-> persons,
                                       k |-> k + 1, pnow |-> pnow,
                                       gate |-> S.call.gate]]
             ELSE CheckViolations(S2, camera_id, persons, k + 1, pnow)

----------------------------------------------------------------------------
(* Inputs.                                                                 *)

Det(class, bbox) == [class |-> class, bbox |-> bbox]

\* person boxes: BoxA and BoxA2 share the centre (2,2), BoxB is centred at (12,2)
BoxA == <<0, 0, 4, 4>>
BoxA2 == <<0, 0, 4, 5>>
BoxB == <<10, 0, 14, 4>>
\* PPE boxes: BoxOnA overlaps BoxA with IoU 1/2, BoxNearA with IoU 1/4
BoxOnA == <<0, 0, 4, 2>>
BoxNearA == <<0, 0, 2, 2>>
BoxOnB == <<10, 0, 14, 3>>
\* a bbox with three coordinates
BoxShort == <<0, 0, 4>>

\* the detection lists handed to process_detections
Frames ==
    { <<>>,
      <<Det("person", BoxA)>>,
      <<Det("Person", BoxA), Det("Goggles", BoxOnA)>>,
      <<Det("person", BoxA), Det("goggles", BoxNearA), Det("person", BoxShort)>> }

\* the detection lists of the two-camera specification, per camera
FramesOf(c) ==
    IF c = "cam1"
    THEN { <<Det("person", BoxA)>>,
           <<Det("Person", BoxA2), Det("Goggles", BoxOnA), Det("person", BoxB)>>,
           <<Det("person", BoxB), Det("lab_coat", BoxOnB), Det("goggles", BoxShort)>> }
    ELSE { <<Det("person", BoxB)>>,
           <<Det("person", BoxB), Det("goggles", BoxOnB), Det("Lab_Coat", BoxOnB)>> }

SessionIds == {"s1"}

\* session config payloads (dicts); the empty dict stands for "no config"
Configs ==
    { EmptyMap,
      [x \in {"goggles_enabled"} |-> FALSE],
      [x \in {"goggles_enabled", "foo"} |-> TRUE] }

TickSteps == {10}

----------------------------------------------------------------------------
(* The asyncio event loop.  A worker whose run() stands at the while test  *)
(* (pc = "loop") is between a resumption and its next await: it holds the  *)
(* event loop, and no other coroutine runs until it suspends or returns.   *)

AtLoop(c) == stream[c].pc = "loop"

\* the event loop can run camera c's worker
Scheduled(c) == \A d \in Cameras \ {c} : ~AtLoop(d)

\* the event loop can run a coroutine that is no camera worker's run()
LoopFree == \A d \in Cameras : ~AtLoop(d)

\* task.cancel() was called on camera c's worker and the task has not run since:
\* it will be resumed with CancelledError, never with the awaited result
Cancelling(c) == c \in svc.cancelling

----------------------------------------------------------------------------
(* Operations of the ViolationEngine.                                      *)

Op(op, cam) ==
    [op |-> op, cam |-> cam, nd |-> 0, raised |-> FALSE, gated |-> FALSE,
     current |-> {}, expired |-> {}, evals |-> {}, args |-> <<>>, matched |-> <<>>]

\* "if not self.active_session_id"
NoActiveSession(sid) == sid = None \/ sid = ""

\* update_config (lines 78-98)
update_config_Wholesale(req, config) ==
    [kind \in DOMAIN req |->
        IF kind = "goggles" /\ "goggles_enabled" \in DOMAIN config
        THEN config["goggles_enabled"]
        ELSE IF kind = "lab_coat" /\ "lab_coat_enabled" \in DOMAIN config
        THEN config["lab_coat_enabled"]
        ELSE IF kind = "gloves" /\ "gloves_enabled" \in DOMAIN config
        THEN config["gloves_enabled"]
        ELSE IF kind = "helmet" /\ "helmet_enabled" \in DOMAIN config
        THEN config["helmet_enabled"]
        ELSE FALSE]

update_config(req, config) ==
    [kind \in DOMAIN req |->
        IF kind = "goggles" /\ "goggles_enabled" \in DOMAIN config
        THEN config["goggles_enabled"]
        ELSE IF kind = "lab_coat" /\ "lab_coat_enabled" \in DOMAIN config
        THEN config["lab_coat_enabled"]
        ELSE IF kind = "gloves" /\ "gloves_enabled" \in DOMAIN config
        THEN config["gloves_enabled"]
        ELSE IF kind = "helmet" /\ "helmet_enabled" \in DOMAIN config
        THEN config["helmet_enabled"]
        ELSE req[kind]]

\* the time since which a session is in force without interruption, once
\* session_id is made the active session
SessionSince(session_id) ==
    IF HistoryKept /\ NoActiveSession(active_session_id) /\ ~NoActiveSession(session_id)
    THEN now ELSE session_since

\* set_active_session (lines 70-76); "if config" is false for None and {}
set_active_session(session_id, config) ==
    /\ LoopFree
    /\ active_session_id' = session_id
    /\ required_ppe' = IF DOMAIN config # {} THEN update_config(required_ppe, config)
                       ELSE required_ppe
    /\ session_since' = SessionSince(session_id)
    /\ lastOp' = [Op("set_active_session", None) EXCEPT !.args = <<session_id, config>>]
    /\ UNCHANGED <<now, people, violation_start_times, active_violations,
                   violation_cooldowns, call, alerts, streak, rearm, scen, streamVars>>

\* clear_active_session (lines 100-103)
clear_active_session_ResetsTables ==
    /\ LoopFree
    /\ active_session_id' = None
    /\ violation_start_times' = EmptyMap
    /\ active_violations' = {}
    /\ lastOp' = Op("clear_active_session", None)
    /\ UNCHANGED <<now, required_ppe, people, violation_cooldowns, call, alerts,
                   streak, rearm, session_since, scen, streamVars>>

clear_active_session ==
    /\ LoopFree
    /\ active_session_id' = None
    /\ lastOp' = Op("clear_active_session", None)
    /\ UNCHANGED <<now, required_ppe, people, violation_start_times, active_violations,
                   violation_cooldowns, call, alerts, streak, rearm, session_since, scen,
                   streamVars>>

StartState ==
    [st |-> violation_start_times, av |-> active_violations, cd |-> violation_cooldowns,
     alerts |-> alerts, streak |-> streak, rearm |-> rearm, scen |-> scen,
     evals |-> {}, call |-> IdleCall]

\* the engine's tables and the history after a block of checks
CommitChecks(c, S) ==
    /\ violation_start_times' = S.st
    /\ active_violations' = S.av
    /\ violation_cooldowns' = S.cd
    /\ alerts' = S.alerts
    /\ streak' = S.streak
    /\ rearm' = S.rearm
    /\ scen' = S.scen
    /\ call' = [call EXCEPT ![c] = S.call]

\* what is in force at the session gate: the session id and the required kinds
GateSnapshot ==
    [sid |-> active_session_id, req |-> {kind \in DOMAIN required_ppe : required_ppe[kind]}]

\* the session gate of process_detections (lines 174-176)
Gate_Missing(sid) == FALSE

Gate(sid) == NoActiveSession(sid)

\* process_detections (lines 160-224) from its start to its first suspension
\* (the await of upload_violation) or to its return
ProcessDetectionsEffect(c, dets) ==
    IF Gate(active_session_id)
    THEN /\ lastOp' = [Op("process_detections", c) EXCEPT
                         !.nd = Len(dets), !.gated = TRUE, !.args = <<c, dets>>]
         /\ UNCHANGED <<people, violation_start_times, active_violations,
                        violation_cooldowns, call, alerts, streak, rearm, scen>>
    ELSE LET people_detections == SelectSeq(dets, IsPerson)
             ppe_detections == SelectSeq(dets, IsPPE)
             T == TrackPeople([people |-> people, current |-> <<>>, raised |-> FALSE,
                               matched |-> <<>>],
                              c, people_detections, ppe_detections)
         IN  IF T.raised
             THEN /\ people' = T.people
                  /\ lastOp' = [Op("process_detections", c) EXCEPT
                                  !.nd = Len(dets), !.raised = TRUE,
                                  !.args = <<c, dets>>]
                  /\ UNCHANGED <<violation_start_times, active_violations,
                                 violation_cooldowns, call, alerts, streak, rearm, scen>>
             ELSE LET persons == [i \in 1..Len(T.current) |->
                                     [pid |-> T.current[i],
                                      tracker |-> T.people[T.current[i]]]]
                      S == CheckViolations([StartState EXCEPT !.call.gate = GateSnapshot],
                                           c, persons, 1, now)
                  IN  /\ people' = RemoveOldPeople(T.people, T.current)
                      /\ CommitChecks(c, S)
                      /\ lastOp' = [Op("process_detections", c) EXCEPT
                                      !.nd = Len(dets),
                                      !.args = <<c, dets>>,
                                      !.matched = T.matched,
                                      !.current = {T.current[i] : i \in 1..Len(T.current)},
                                      !.expired = (DOMAIN T.people) \ (DOMAIN people'),
                                      !.evals = S.evals]

process_detections(c, dets) ==
    /\ LoopFree
    /\ call[c].pc = "idle"
    /\ ProcessDetectionsEffect(c, dets)
    /\ UNCHANGED <<now, active_session_id, required_ppe, session_since, streamVars>>

\* the sleep _process_frame is followed by: 1/fps for an image, 1/30 otherwise
SleepAfterFrame(st) == IF st.source_type = "image" THEN "wait_image" ELSE "wait_frame"

\* _process_frame once process_detections has returned: "self.frame_count += 1"
FrameProcessed(st) == [st EXCEPT !.frame_count = @ + 1, !.pc = SleepAfterFrame(st)]

\* the rest of process_detections after upload_violation returns; upload_violation
\* catches its own exceptions, so a failed upload resumes the same way
upload_returns(c, outcome) ==
    /\ LoopFree
    /\ ~Cancelling(c)
    /\ call[c].pc = "upload"
    /\ LET S == CheckViolations([StartState EXCEPT !.call.gate = call[c].gate],
                                c, call[c].persons, call[c].k, call[c].pnow)
       IN  /\ CommitChecks(c, S)
           /\ lastOp' = [Op(outcome, c) EXCEPT !.evals = S.evals]
    /\ stream' = [stream EXCEPT ![c] =
                    IF @.pc = "engine" /\ call'[c].pc = "idle" THEN FrameProcessed(@)
                    ELSE @]
    /\ UNCHANGED <<now, active_session_id, required_ppe, session_since, people, hist, svc>>

\* the key whose alert camera c's suspended process_detections call is uploading
PendingKey(c) ==
    ViolationKey(c, call[c].persons[1].pid, PPE_CLASSES[call[c].k - 1])

\* the keys whose upload a cancellation of camera c's worker would abandon
InFlight(c) == IF call[c].pc = "upload" THEN {PendingKey(c)} ELSE {}

\* the task running process_detections for camera c is cancelled while
\* upload_violation is awaited (violation_engine.py:324): CancelledError passes
\* through _trigger_violation_alert, _check_violations and process_detections,
\* the rest of the call is never run and the tables stay as they are
call_cancelled(c) ==
    /\ LoopFree
    /\ call[c].pc = "upload"
    /\ call' = [call EXCEPT ![c] = IdleCall]
    /\ hist' = [hist EXCEPT ![c].abandoned = @ \cup InFlight(c)]
    /\ lastOp' = Op("call_cancelled", c)
    /\ UNCHANGED <<now, active_session_id, required_ppe, people, violation_start_times,
                   active_violations, violation_cooldowns, alerts, streak, rearm, session_since, scen,
                   stream, svc>>

\* the clock advances
Tick(d, limit) ==
    /\ now + d <= limit
    /\ now' = now + d
    /\ lastOp' = Op("tick", None)
    /\ UNCHANGED <<engineVars, alerts, streak, rearm, session_since, scen, streamVars>>

----------------------------------------------------------------------------
(* CameraStream (services/camera_manager.py).                              *)
(* A stream is [source_type, cap, running, frame_count, reconnect_attempts,*)
(* pc, pos]: cap is "none" (None), "open" (an opened VideoCapture) or      *)
(* "closed" (a VideoCapture that failed to open); pos is the read position *)
(* of a file source; alive says that the source still exists (a file not   *)
(* removed, a device not unplugged); fps is global_config.fps as the stream *)
(* reads it; pc is where run() stands:                                     *)
(*   "absent" no stream, "new" task created, "loop" at the while test,     *)
(*   "wait_reconnect" | "wait_image" | "wait_frame" in asyncio.sleep,      *)
(*   "detect" awaiting ai_client.detect, "engine" awaiting                 *)
(*   process_detections, "done" run() has returned, "failed" run() has     *)
(*   ended with an exception, "cancelled" it was cancelled.                *)

\* EdgeControllerService.running and where its stop() stands, CameraManager's
\* streams and tasks dicts (their keys), the tasks cancelled but not yet resumed,
\* who called stop_all_cameras, whether the shutdown of the application has
\* begun, the session poller task (poller is where _poll_sessions stands,
\* last_session_id its local variable) and CloudSync.current_session_id
NoService ==
    [pc |-> "off", running |-> FALSE, streams |-> {}, tasks |-> {}, cancelling |-> {},
     caller |-> "manager", shutdown |-> FALSE,
     poller |-> "none", poller_cancelling |-> FALSE, current_session_id |-> None,
     last_session_id |-> None, orphans |-> {}, observed |-> None]

NoStream ==
    [source_type |-> "none", cap |-> "none", running |-> FALSE, frame_count |-> 0,
     reconnect_attempts |-> 0, pc |-> "absent", pos |-> 0, alive |-> FALSE,
     fps |-> fps]

\* CameraStream.__init__ (lines 36-39) with the source type _parse_source gives
NewStream(source_type) ==
    [source_type |-> source_type, cap |-> "none", running |-> FALSE, frame_count |-> 0,
     reconnect_attempts |-> 0, pc |-> "new", pos |-> 0, alive |-> TRUE,
     fps |-> fps]

\* abandoned: the keys whose upload was in flight when a process_detections
\* call of the camera was cancelled; stopped: stop() was called on the stream;
\* rfail: "pending" from a failed read of a live source to the next successful
\* connect, "reconnected" after it
NoHist ==
    [reads |-> 0, forwarded |-> 0, cfails |-> 0, cwaits |-> 0, connected |-> 0,
     abandoned |-> {}, stopped |-> FALSE, rfail |-> "no"]

\* "self.cap is None or not self.cap.isOpened()"
NotConnected(st) == st.cap # "open"

\* "self.reconnect_attempts >= self.global_config.max_reconnect_attempts"
ReconnectExhausted_OneMore(attempts) == attempts > max_reconnect_attempts

ReconnectExhausted(attempts) == attempts >= max_reconnect_attempts

\* "if source_type == 'file'" on a failed read: end of the video file
RewindsOnReadFailure_Never(source_type) == FALSE

RewindsOnReadFailure(source_type) == source_type = "file"

\* "30 // self.global_config.fps"
FrameStrideOf(f) == NativeRate \div f

FrameStride == FrameStrideOf(fps)

\* "self.frame_count % (30 // self.global_config.fps) == 0"; the modulo raises
\* ZeroDivisionError when the stride is 0
ModuloRaises(stride) == stride = 0

ForwardsFrame(frame_count, stride) == frame_count % stride = 0

\* the ways _connect returns False (lines 88-92, 99-106, 115-123) and the cap each leaves
ConnectFailures == {"open_failed", "test_read_failed", "exception"}

\* (a variant whose failed connect leaves an opened handle)
CapAfterFailedConnect_Open(how) == "open"

CapAfterFailedConnect(how) == IF how = "open_failed" THEN "closed" ELSE "none"

SetStream(c, st, h, op) ==
    /\ stream' = [stream EXCEPT ![c] = st]
    /\ hist' = [hist EXCEPT ![c] = h]
    /\ lastOp' = Op(op, c)
    /\ UNCHANGED svc

\* run() starts: "self.running = True" (line 158)
run_start(c) ==
    /\ Scheduled(c)
    /\ ~Cancelling(c)
    /\ stream[c].pc = "new"
    /\ SetStream(c, [stream[c] EXCEPT !.running = TRUE, !.pc = "loop"], hist[c], "run_start")
    /\ UNCHANGED <<now, engineVars, alerts, streak, rearm, session_since, scen>>

\* "while self.running" turns false
run_exit(c) ==
    /\ Scheduled(c)
    /\ stream[c].pc = "loop"
    /\ ~stream[c].running
    /\ SetStream(c, [stream[c] EXCEPT !.pc = "done"], hist[c], "run_exit")
    /\ UNCHANGED <<now, engineVars, alerts, streak, rearm, session_since, scen>>

\* the static-image branch (lines 162-175): imread, then _process_frame or sleep(1)
run_image(c, loaded) ==
    /\ Scheduled(c)
    /\ stream[c].pc = "loop"
    /\ stream[c].running
    /\ stream[c].source_type = "image"
    /\ IF loaded
       THEN /\ hist[c].reads < MaxReads
            /\ SetStream(c, [stream[c] EXCEPT !.pc = "detect"],
                         [hist[c] EXCEPT !.reads = @ + 1, !.forwarded = @ + 1], "read_ok")
       ELSE SetStream(c, [stream[c] EXCEPT !.pc = "wait_image"], hist[c], "read_failed")
    /\ UNCHANGED <<now, engineVars, alerts, streak, rearm, session_since, scen>>

\* "Max reconnection attempts reached. Stopping stream." (lines 179-184)
run_break(c) ==
    /\ Scheduled(c)
    /\ stream[c].pc = "loop"
    /\ stream[c].running
    /\ stream[c].source_type # "image"
    /\ NotConnected(stream[c])
    /\ ReconnectExhausted(stream[c].reconnect_attempts)
    /\ SetStream(c, [stream[c] EXCEPT !.pc = "done"], hist[c], "run_break")
    /\ UNCHANGED <<now, engineVars, alerts, streak, rearm, session_since, scen>>

\* a connect attempt that fails (lines 191-195): count it and sleep
run_connect_failed(c, how) ==
    /\ Scheduled(c)
    /\ stream[c].pc = "loop"
    /\ stream[c].running
    /\ stream[c].source_type # "image"
    /\ NotConnected(stream[c])
    /\ ~ReconnectExhausted(stream[c].reconnect_attempts)
    /\ SetStream(c, [stream[c] EXCEPT !.cap = CapAfterFailedConnect(how),
                                      !.reconnect_attempts = @ + 1,
                                      !.pc = "wait_reconnect"],
                 [hist[c] EXCEPT !.cfails = @ + 1, !.cwaits = @ + 1],
                 "connect_failed")
    /\ UNCHANGED <<now, engineVars, alerts, streak, rearm, session_since, scen>>

\* the stream as line 198 finds it: connected before, or connected now by a
\* successful _connect (which resets reconnect_attempts and has read one test frame)
Connected_KeepsAttempts(st) ==
    IF NotConnected(st)
    THEN [st EXCEPT !.cap = "open", !.pos = 1]
    ELSE st

Connected(st) ==
    IF NotConnected(st)
    THEN [st EXCEPT !.cap = "open", !.reconnect_attempts = 0, !.pos = 1]
    ELSE st

HistConnected(st, h) ==
    IF NotConnected(st)
    THEN [h EXCEPT !.cfails = 0, !.cwaits = 0, !.connected = 1,
                   !.rfail = IF @ = "pending" THEN "reconnected" ELSE @]
    ELSE h

CanRun_WhileProcessing(c) ==
    /\ Scheduled(c)
    /\ stream[c].pc \in {"loop", "detect"}
    /\ stream[c].running
    /\ stream[c].source_type # "image"
    /\ NotConnected(stream[c]) => ~ReconnectExhausted(stream[c].reconnect_attempts)
    /\ NotConnected(stream[c]) => stream[c].alive

CanRun(c) ==
    /\ Scheduled(c)
    /\ stream[c].pc = "loop"
    /\ stream[c].running
    /\ stream[c].source_type # "image"
    /\ NotConnected(stream[c]) => ~ReconnectExhausted(stream[c].reconnect_attempts)
    /\ NotConnected(stream[c]) => stream[c].alive

\* cap.read() returns ret; a video file has no frame past its end, a source
\* that is gone has no frame at all
ReadSucceeds(st, ret) ==
    /\ ret
    /\ st.alive
    /\ st.source_type = "file" => st.pos < FileLen

\* "ret, frame = self.cap.read()" fails (lines 200-217)
run_read_failed(c, ret) ==
    /\ CanRun(c)
    /\ LET st == Connected(stream[c])
           h == HistConnected(stream[c], hist[c])
       IN  /\ ~ReadSucceeds(st, ret)
           /\ IF RewindsOnReadFailure(st.source_type)
              THEN SetStream(c, [st EXCEPT !.pos = 0, !.pc = "loop"], h, "read_failed")
              ELSE SetStream(c, [st EXCEPT !.cap = "none",
                                           !.reconnect_attempts = @ + 1,
                                           !.pc = "wait_reconnect"],
                             [h EXCEPT !.rfail = "pending"], "read_failed")
    /\ UNCHANGED <<now, engineVars, alerts, streak, rearm, session_since, scen>>

\* a frame is read (lines 198, 219-224): forwarded to _process_frame or skipped;
\* line 220 is inside no try, an exception raised there ends run()
run_read(c, ret) ==
    /\ CanRun(c)
    /\ hist[c].reads < MaxReads
    /\ LET st == Connected(stream[c])
           h == HistConnected(stream[c], hist[c])
       IN  /\ ReadSucceeds(st, ret)
           /\ IF ModuloRaises(FrameStrideOf(st.fps))
              THEN SetStream(c, [st EXCEPT !.pos = @ + 1, !.pc = "failed"],
                             [h EXCEPT !.reads = @ + 1], "zero_division")
              ELSE IF ForwardsFrame(st.frame_count, FrameStrideOf(st.fps))
              THEN SetStream(c, [st EXCEPT !.pos = @ + 1, !.pc = "detect"],
                             [h EXCEPT !.reads = @ + 1, !.forwarded = @ + 1], "read_ok")
              ELSE SetStream(c, [st EXCEPT !.pos = @ + 1, !.pc = "wait_frame"],
                             [h EXCEPT !.reads = @ + 1], "read_ok")
    /\ UNCHANGED <<now, engineVars, alerts, streak, rearm, session_since, scen>>

\* _process_frame (lines 137-148): ai_client.detect returns; process_detections
\* is called when the list is not empty
detect_returns(c, dets) ==
    /\ LoopFree
    /\ ~Cancelling(c)
    /\ stream[c].pc = "detect"
    /\ IF dets # <<>>
       THEN /\ ProcessDetectionsEffect(c, dets)
            /\ stream' = [stream EXCEPT ![c] =
                            IF lastOp'.raised
                            THEN [@ EXCEPT !.pc = SleepAfterFrame(stream[c])]
                            ELSE IF call'[c].pc = "upload" THEN [@ EXCEPT !.pc = "engine"]
                            ELSE FrameProcessed(@)]
       ELSE /\ stream' = [stream EXCEPT ![c] = FrameProcessed(@)]
            /\ lastOp' = Op("detect_empty", c)
            /\ UNCHANGED <<people, violation_start_times, active_violations,
                           violation_cooldowns, call, alerts, streak, rearm, scen>>
    /\ UNCHANGED <<now, active_session_id, required_ppe, session_since, hist, svc>>

\* ai_client.detect raises (the detector fails): _process_frame logs the
\* exception and returns (lines 150-154), frame_count is not incremented
detect_raises(c) ==
    /\ LoopFree
    /\ ~Cancelling(c)
    /\ stream[c].pc = "detect"
    /\ stream' = [stream EXCEPT ![c].pc = SleepAfterFrame(stream[c])]
    /\ lastOp' = [Op("detect_raised", c) EXCEPT !.raised = TRUE]
    /\ UNCHANGED <<now, engineVars, alerts, streak, rearm, session_since, scen, hist, svc>>

\* CameraStream.stop (lines 226-232): clear the flag and release the source
stop(c) ==
    /\ LoopFree
    /\ stream[c].pc # "absent"
    /\ SetStream(c, [stream[c] EXCEPT !.running = FALSE, !.cap = "none"],
                 [hist[c] EXCEPT !.stopped = TRUE], "stop")
    /\ UNCHANGED <<now, engineVars, alerts, streak, rearm, session_since, scen>>

\* asyncio.sleep is over: back to the while test
wake(c) ==
    /\ LoopFree
    /\ ~Cancelling(c)
    /\ stream[c].pc \in {"wait_reconnect", "wait_image", "wait_frame"}
    /\ SetStream(c, [stream[c] EXCEPT !.pc = "loop"], hist[c], "wake")
    /\ UNCHANGED <<now, engineVars, alerts, streak, rearm, session_since, scen>>

----------------------------------------------------------------------------
(* CameraManager (services/camera_manager.py, lines 235-292).              *)

\* the worker task of camera c has finished: run() returned or was cancelled
Terminated(c) == stream[c].pc \in {"done", "cancelled", "failed"}

\* "for stream in self.streams.values(): await stream.stop()"
StoppedStreams_KeepHandles(S) ==
    [c \in Cameras |-> IF c \in S THEN [stream[c] EXCEPT !.running = FALSE]
                                 ELSE stream[c]]

StoppedStreams(S) ==
    [c \in Cameras |-> IF c \in S THEN [stream[c] EXCEPT !.running = FALSE, !.cap = "none"]
                                 ELSE stream[c]]

HistStopped(S) ==
    [c \in Cameras |-> IF c \in S THEN [hist[c] EXCEPT !.stopped = TRUE] ELSE hist[c]]

\* "self.streams.clear(); self.tasks.clear()"
ClearedManager(v) == [v EXCEPT !.streams = {}, !.tasks = {}, !.cancelling = {}]

\* start_all_cameras (lines 251-272): a stream and a task per enabled camera;
\* types maps the enabled cameras to the source types of their sources
StartedStreams(types) ==
    [c \in Cameras |-> IF c \in DOMAIN types THEN NewStream(types[c]) ELSE stream[c]]

start_all_cameras(types) ==
    /\ LoopFree
    /\ svc.pc = "off"
    /\ stream' = StartedStreams(types)
    /\ svc' = [svc EXCEPT !.pc = "up", !.streams = DOMAIN types, !.tasks = DOMAIN types]
    /\ lastOp' = Op("start_all_cameras", None)
    /\ UNCHANGED <<now, engineVars, alerts, streak, rearm, session_since, scen, hist>>

\* stop_all_cameras up to "await asyncio.gather(...)" (lines 274-288), or to its
\* return when there is no task: stop every stream, cancel every task
StopAllCameras(v) ==
    IF v.tasks = {}
    THEN [ClearedManager(v) EXCEPT !.pc = "stopped"]
    ELSE [v EXCEPT !.pc = "gather", !.cancelling = {c \in v.tasks : ~Terminated(c)}]

stop_all_cameras ==
    /\ LoopFree
    /\ svc.pc = "up"
    /\ stream' = StoppedStreams(svc.streams)
    /\ hist' = HistStopped(svc.streams)
    /\ svc' = StopAllCameras(svc)
    /\ lastOp' = Op("stop_all_cameras", None)
    /\ UNCHANGED <<now, engineVars, alerts, streak, rearm, session_since, scen>>

\* a cancelled task is resumed: CancelledError is raised at its await and, not
\* being an Exception, passes every "except Exception" up and out of run()
task_cancelled(c) ==
    /\ LoopFree
    /\ Cancelling(c)
    /\ stream' = [stream EXCEPT ![c].pc = "cancelled"]
    /\ call' = [call EXCEPT ![c] = IdleCall]
    /\ hist' = [hist EXCEPT ![c].abandoned = @ \cup InFlight(c)]
    /\ svc' = [svc EXCEPT !.cancelling = @ \ {c}]
    /\ lastOp' = Op("task_cancelled", c)
    /\ UNCHANGED <<now, active_session_id, required_ppe, people, violation_start_times,
                   active_violations, violation_cooldowns, alerts, streak, rearm, session_since, scen>>

\* gather(..., return_exceptions=True) completes once every task is done; the
\* outcomes are dropped and the dicts cleared (lines 287-292)
GatherDone(v) == \A c \in v.tasks : Terminated(c)

\* CloudSync.stop up to "await self.session_listener_task" (cloud_sync.py,
\* lines 215-219): the poller task, which never returns by itself, is cancelled
CloudSyncStop(v) == [v EXCEPT !.pc = "await_poller", !.poller_cancelling = TRUE]

\* what follows the return of stop_all_cameras: EdgeControllerService.stop goes
\* on with "await self.cloud_sync.stop()" (main.py, lines 96-98)
AfterStopAll(v) == IF v.caller = "service" /\ v.pc = "stopped" THEN CloudSyncStop(v) ELSE v

stop_all_returns ==
    /\ LoopFree
    /\ svc.pc = "gather"
    /\ GatherDone(svc)
    /\ svc' = AfterStopAll([ClearedManager(svc) EXCEPT !.pc = "stopped"])
    /\ lastOp' = Op("stop_all_returns", None)
    /\ UNCHANGED <<now, engineVars, alerts, streak, rearm, session_since, scen, stream, hist>>

\* the worker task of camera c that self.tasks holds has been created and has
\* not finished
LiveTask(c) == c \in svc.tasks /\ ~Terminated(c)

\* svc.orphans: the cameras with a worker task that is in self.tasks no more
\* and has not finished; nothing stops or cancels such a task
Orphaned(v, S) == [v EXCEPT !.orphans = @ \cup {c \in S : LiveTask(c)}]

\* start_all_cameras called again while the manager is up (lines 251-272 have
\* no guard): "self.streams[id] = stream" and "self.tasks[id] = task" replace
\* the entries of the first call, whose tasks go on running
start_all_cameras_again(types) ==
    /\ LoopFree
    /\ svc.pc = "up"
    /\ \A c \in DOMAIN types : c \notin svc.orphans /\ call[c].pc = "idle"
    /\ stream' = StartedStreams(types)
    /\ hist' = [c \in Cameras |-> IF c \in DOMAIN types THEN NoHist ELSE hist[c]]
    /\ svc' = [Orphaned(svc, DOMAIN types) EXCEPT !.streams = @ \cup DOMAIN types,
                                                   !.tasks = @ \cup DOMAIN types]
    /\ lastOp' = Op("start_all_cameras_again", None)
    /\ UNCHANGED <<now, engineVars, alerts, streak, rearm, session_since, scen>>

\* start_all_cameras called while stop_all_cameras is suspended in its gather
\* (line 288), here once the gathered tasks have finished and before
\* stop_all_cameras is resumed: the new streams and tasks enter the dicts
\* that stop_all_cameras is about to clear
start_all_cameras_in_gather(types) ==
    /\ LoopFree
    /\ svc.pc = "gather"
    /\ GatherDone(svc)
    /\ \A c \in DOMAIN types : c \notin svc.orphans /\ call[c].pc = "idle"
    /\ stream' = StartedStreams(types)
    /\ hist' = [c \in Cameras |-> IF c \in DOMAIN types THEN NoHist ELSE hist[c]]
    /\ svc' = [svc EXCEPT !.pc = "gathered", !.streams = @ \cup DOMAIN types,
                          !.tasks = @ \cup DOMAIN types]
    /\ lastOp' = Op("start_all_cameras_in_gather", None)
    /\ UNCHANGED <<now, engineVars, alerts, streak, rearm, session_since, scen>>

\* stop_all_cameras resumed after such a call: "self.streams.clear();
\* self.tasks.clear()" (lines 290-291) drop the new tasks, which go on running
stop_all_returns_late ==
    /\ LoopFree
    /\ svc.pc = "gathered"
    /\ svc' = AfterStopAll([ClearedManager(Orphaned(svc, svc.tasks)) EXCEPT !.pc = "stopped"])
    /\ lastOp' = Op("stop_all_returns", None)
    /\ UNCHANGED <<now, engineVars, alerts, streak, rearm, session_since, scen, stream, hist>>

\* an orphaned worker ends by itself: its reconnect attempts are exhausted
orphan_ends(c) ==
    /\ c \in svc.orphans
    /\ svc' = [svc EXCEPT !.orphans = @ \ {c}]
    /\ lastOp' = Op("orphan_ends", c)
    /\ UNCHANGED <<now, engineVars, alerts, streak, rearm, session_since, scen, stream, hist>>

----------------------------------------------------------------------------
(* EdgeControllerService (main.py) and the session poller of CloudSync     *)
(* (services/cloud_sync.py, lines 138-242).  svc.pc is where the service   *)
(* stands: "off", "up" (started), then inside stop(): "gather",            *)
(* "await_poller", "await_update", and "service_stopped" once stop() has   *)
(* returned.  poller is where _poll_sessions stands: "new", "poll" (in the *)
(* await of the query), "sleep", "cancelled".                              *)

\* EdgeControllerService.start (main.py, lines 67-82): no await in it suspends
service_start(types) ==
    /\ LoopFree
    /\ svc.pc = "off"
    /\ ~svc.running
    /\ stream' = StartedStreams(types)
    /\ svc' = [svc EXCEPT !.pc = "up", !.running = TRUE, !.caller = "service",
                          !.poller = "new", !.streams = DOMAIN types,
                          !.tasks = DOMAIN types]
    /\ lastOp' = Op("service_start", None)
    /\ UNCHANGED <<now, engineVars, alerts, streak, rearm, session_since, scen, hist>>

\* the source of camera c goes away (a device is unplugged, a stream ends for
\* good): from now on no connect and no read succeeds
source_lost(c) ==
    /\ stream[c].pc # "absent"
    /\ stream[c].alive
    /\ stream' = [stream EXCEPT ![c].alive = FALSE]
    /\ lastOp' = Op("source_lost", c)
    /\ UNCHANGED <<now, engineVars, alerts, streak, rearm, session_since, scen, hist, svc>>

\* the application shuts down: lifespan is resumed after its yield and will
\* call service.stop() when the event loop runs it (main.py, lines 130-133)
shutdown ==
    /\ svc.pc = "up"
    /\ svc.caller = "service"
    /\ ~svc.shutdown
    /\ svc' = [svc EXCEPT !.shutdown = TRUE]
    /\ lastOp' = Op("shutdown", None)
    /\ UNCHANGED <<now, engineVars, alerts, streak, rearm, session_since, scen, stream, hist>>

\* EdgeControllerService.stop (main.py, lines 84-100) up to its first suspension
service_stop ==
    /\ LoopFree
    /\ svc.shutdown
    /\ svc.pc = "up"
    /\ svc.running
    /\ stream' = StoppedStreams(svc.streams)
    /\ hist' = HistStopped(svc.streams)
    /\ svc' = AfterStopAll(StopAllCameras([svc EXCEPT !.running = FALSE]))
    /\ lastOp' = Op("service_stop", None)
    /\ UNCHANGED <<now, engineVars, alerts, streak, rearm, session_since, scen>>

\* _poll_sessions starts the query: "await asyncio.to_thread(...)" (lines 156-163)
poll_request ==
    /\ LoopFree
    /\ ~svc.poller_cancelling
    /\ svc.poller \in {"new", "sleep"}
    /\ svc' = [svc EXCEPT !.poller = "poll"]
    /\ lastOp' = Op("poll_request", None)
    /\ UNCHANGED <<now, engineVars, alerts, streak, rearm, session_since, scen, stream, hist>>

\* the query returns (lines 165-211): result is the id of the latest active
\* session, None when there is none, "error" when the query raised; the
\* callback is EdgeControllerService.handle_session_command (main.py, 102-113)
PollResults == SessionIds \cup {None, "error"}

\* (a variant that takes every session found for a new one)
NewSession_Always(result, last_session_id) == result \notin {None, "error"}

\* "if data and len(data) > 0: ... if session_id != last_session_id" (lines 167-176)
NewSession(result, last_session_id) ==
    result \notin {None, "error"} /\ result # last_session_id

\* svc.observed (history): what the last query that returned has found
Observed(v, result) == [v EXCEPT !.observed = IF result = "error" THEN @ ELSE result]

poll_returns(result, config) ==
    /\ LoopFree
    /\ ~svc.poller_cancelling
    /\ svc.poller = "poll"
    /\ IF NewSession(result, svc.last_session_id)
       THEN /\ svc' = [Observed(svc, result) EXCEPT !.poller = "sleep",
                                  !.current_session_id = result,
                                  !.last_session_id = result]
            /\ active_session_id' = result
            /\ session_since' = SessionSince(result)
            /\ required_ppe' = IF DOMAIN config # {}
                               THEN update_config(required_ppe, config)
                               ELSE required_ppe
       ELSE IF result = None /\ svc.last_session_id # None
       THEN /\ svc' = [Observed(svc, result) EXCEPT !.poller = "sleep",
                                  !.current_session_id = None,
                                  !.last_session_id = None]
            /\ active_session_id' = None
            /\ UNCHANGED <<required_ppe, session_since>>
       ELSE /\ svc' = [Observed(svc, result) EXCEPT !.poller = "sleep"]
            /\ UNCHANGED <<active_session_id, required_ppe, session_since>>
    /\ lastOp' = [Op("poll_returns", None) EXCEPT !.args =
                    <<result, IF NewSession(result, svc.last_session_id) THEN "start"
                              ELSE IF result = None /\ svc.last_session_id # None THEN "stop"
                              ELSE "none">>]
    /\ UNCHANGED <<now, people, violation_start_times, active_violations,
                   violation_cooldowns, call, alerts, streak, rearm, scen, stream, hist>>

\* the cancelled poller task is resumed with CancelledError, which leaves
\* "while True" ("except Exception" does not catch it)
poller_cancelled ==
    /\ LoopFree
    /\ svc.poller_cancelling
    /\ svc' = [svc EXCEPT !.poller = "cancelled", !.poller_cancelling = FALSE]
    /\ lastOp' = Op("poller_cancelled", None)
    /\ UNCHANGED <<now, engineVars, alerts, streak, rearm, session_since, scen, stream, hist>>

\* CloudSync.stop after the poller task is done (lines 224-240): the session
\* it started, if any, is marked stopped in the database
cloud_stop_resumes ==
    /\ LoopFree
    /\ svc.pc = "await_poller"
    /\ svc.poller = "cancelled"
    /\ svc' = [svc EXCEPT !.pc = IF svc.current_session_id # None THEN "await_update"
                                 ELSE "service_stopped"]
    /\ lastOp' = Op("cloud_stop_resumes", None)
    /\ UNCHANGED <<now, engineVars, alerts, streak, rearm, session_since, scen, stream, hist>>

\* the update returns or raises (the exception is logged, lines 239-240);
\* CloudSync.stop and EdgeControllerService.stop return
update_returns(outcome) ==
    /\ LoopFree
    /\ svc.pc = "await_update"
    /\ svc' = [svc EXCEPT !.pc = "service_stopped"]
    /\ lastOp' = Op(outcome, None)
    /\ UNCHANGED <<now, engineVars, alerts, streak, rearm, session_since, scen, stream, hist>>

----------------------------------------------------------------------------

\* required_ppe as built by ViolationEngine.__init__ from the Config; the
\* REQUIRE_* environment variables decide which kinds start required
RequiredAtStart(kinds) == [kind \in Kinds |-> kind \in kinds]

\* the engine with the histories rearm and session_since kept from the start
InitHistory(kinds) ==
    /\ now = 0
    /\ active_session_id = None
    /\ required_ppe = RequiredAtStart(kinds)
    /\ people = EmptyMap
    /\ violation_start_times = EmptyMap
    /\ active_violations = {}
    /\ violation_cooldowns = EmptyMap
    /\ call = [c \in Cameras |-> IdleCall]
    /\ alerts = EmptyMap
    /\ streak = EmptyMap
    /\ rearm = EmptyMap
    /\ session_since = 0
    /\ lastOp = Op("init", None)

InitEngine(kinds) ==
    /\ now = 0
    /\ active_session_id = None
    /\ required_ppe = RequiredAtStart(kinds)
    /\ people = EmptyMap
    /\ violation_start_times = EmptyMap
    /\ active_violations = {}
    /\ violation_cooldowns = EmptyMap
    /\ call = [c \in Cameras |-> IdleCall]
    /\ alerts = EmptyMap
    /\ streak = EmptyMap
    /\ rearm = EmptyMap
    /\ session_since = -1
    /\ lastOp = Op("init", None)

\* no CameraStream: process_detections is called directly
InitStream ==
    /\ stream = [c \in Cameras |-> NoStream]
    /\ hist = [c \in Cameras |-> NoHist]
    /\ svc = NoService

\* One camera, one person, goggles required: the debounce and cooldown timeline
Init ==
    /\ InitEngine({"goggles"})
    /\ InitStream
    /\ scen = ExampleOff

Next ==
    \/ \E d \in TickSteps : Tick(d, MaxTime)
    \/ \E sid \in SessionIds, config \in Configs : set_active_session(sid, config)
    \/ clear_active_session
    \/ \E dets \in Frames : process_detections("cam1", dets)
    \/ \E outcome \in {"upload_done", "upload_failed"} : upload_returns("cam1", outcome)

Spec == Init /\ [][Next]_vars

\* One camera, one person seen with and without goggles, a session set and
\* cleared, with the histories rearm and session_since
HistoryFrames ==
    { <<Det("person", BoxA)>>, <<Det("Person", BoxA), Det("Goggles", BoxOnA)>> }

InitTimeline ==
    /\ InitHistory({"goggles"})
    /\ InitStream
    /\ scen = ExampleOff

NextTimeline ==
    \/ \E d \in TickSteps : Tick(d, MaxTime)
    \/ set_active_session("s1", EmptyMap)
    \/ clear_active_session
    \/ \E dets \in HistoryFrames : process_detections("cam1", dets)
    \/ \E outcome \in {"upload_done", "upload_failed"} : upload_returns("cam1", outcome)

SpecTimeline == InitTimeline /\ [][NextTimeline]_vars

\* Two cameras, two persons, goggles and lab coat required (the Config defaults),
\* over a short time: the interleaving of the cameras' process_detections calls
InitMulti ==
    /\ InitEngine({"goggles", "lab_coat"})
    /\ InitStream
    /\ scen = ExampleOff

NextMulti ==
    \/ \E d \in TickSteps : Tick(d, MaxTimeShort)
    \/ set_active_session("s1", EmptyMap)
    \/ clear_active_session
    \/ \E c \in Cameras : \E dets \in FramesOf(c) : process_detections(c, dets)
    \/ \E c \in Cameras, outcome \in {"upload_done", "upload_failed"} :
          upload_returns(c, outcome)

SpecMulti == InitMulti /\ [][NextMulti]_vars

\* Two cameras with one person each, goggles required, over a time long enough
\* for a tracker to fall silent: what a call for one camera does to the other's
\* entries
CrossFrames(c) ==
    IF c = "cam1"
    THEN { <<Det("person", BoxA)>> }
    ELSE { <<Det("person", BoxB)>> }

InitCross ==
    /\ InitEngine({"goggles"})
    /\ InitStream
    /\ scen = ExampleOff

NextCross ==
    \/ \E d \in TickSteps : Tick(d, MaxTimeCamera)
    \/ set_active_session("s1", EmptyMap)
    \/ \E c \in Cameras : \E dets \in CrossFrames(c) : process_detections(c, dets)
    \/ \E c \in Cameras, outcome \in {"upload_done", "upload_failed"} :
          upload_returns(c, outcome)

SpecCross == InitCross /\ [][NextCross]_vars

\* One camera whose process_detections calls may be cancelled in their upload
\* or aborted by a malformed record; one person, goggles and lab coat
\* required, no PPE in any frame
AbandonFrames ==
    { <<Det("person", BoxA)>>,
      <<Det("person", BoxA), Det("person", BoxShort)>> }

InitAbandon ==
    /\ InitEngine({"goggles", "lab_coat"})
    /\ InitStream
    /\ scen = ExampleOff

NextAbandon ==
    \/ \E d \in TickSteps : Tick(d, MaxTime)
    \/ set_active_session("s1", EmptyMap)
    \/ \E dets \in AbandonFrames : process_detections("cam1", dets)
    \/ \E outcome \in {"upload_done", "upload_failed"} : upload_returns("cam1", outcome)
    \/ call_cancelled("cam1")

SpecAbandon == InitAbandon /\ [][NextAbandon]_vars

\* One camera whose frames hold persons with overlapping boxes and PPE on,
\* near and between them.  BoxC overlaps BoxA and is centred at (4,2); BoxA3
\* is centred at (2,2) like BoxA; BoxOnAC has IoU 3/5 with BoxA and with BoxC;
\* BoxOnA has IoU 1/2 with BoxA and 1/5 with BoxC; BoxOnA3 has IoU 1/4 with
\* BoxA and 4/9 with BoxA3
BoxC == <<2, 0, 6, 4>>
BoxA3 == <<1, 1, 4, 4>>
BoxOnAC == <<1, 0, 5, 4>>
BoxOnA3 == <<2, 2, 4, 4>>

TrackFrames ==
    { <<Det("person", BoxA)>>,
      <<Det("person", BoxA), Det("Goggles", BoxOnA), Det("lab_coat", BoxNearA)>>,
      <<Det("person", BoxA), Det("person", BoxC), Det("goggles", BoxOnAC),
        Det("lab_coat", BoxOnA), Det("goggles", <<>>)>>,
      <<Det("person", BoxA), Det("person", BoxA3), Det("goggles", BoxOnA3)>>,
      <<Det("person", BoxA3), Det("person", BoxA), Det("goggles", BoxOnA3),
        Det("Lab_Coat", BoxOnA), Det("lab_coat", BoxOnAC)>> }

InitTrack ==
    /\ InitEngine({"goggles", "lab_coat"})
    /\ InitStream
    /\ scen = ExampleOff

NextTrack ==
    \/ \E d \in TickSteps : Tick(d, MaxTimeShort)
    \/ set_active_session("s1", EmptyMap)
    \/ \E dets \in TrackFrames : process_detections("cam1", dets)
    \/ \E outcome \in {"upload_done", "upload_failed"} : upload_returns("cam1", outcome)

SpecTrack == InitTrack /\ [][NextTrack]_vars

\* The worked example of the spec: one camera, one person, goggles required,
\* frames at any of the times 0.9 s, 2.1 s and 4.2 s steps can reach
ExampleSteps == {9, 21, 42}

ExampleFrames ==
    { <<Det("person", BoxA)>>,
      <<Det("person", BoxA), Det("goggles", BoxOnA)>> }

InitExample ==
    /\ InitEngine({"goggles"})
    /\ InitStream
    /\ scen = ExampleOn

NextExample ==
    \/ \E d \in ExampleSteps : Tick(d, MaxTimeExample)
    \/ set_active_session("s1", EmptyMap)
    \/ \E dets \in ExampleFrames : process_detections("cam1", dets)
    \/ \E outcome \in {"upload_done", "upload_failed"} : upload_returns("cam1", outcome)

SpecExample == InitExample /\ [][NextExample]_vars

\* One CameraStream worker of each source type over a session-less engine
SourceTypes == {"rtsp", "usb", "file", "image"}

InitStreams ==
    /\ InitEngine({"goggles", "lab_coat"})
    /\ \E t \in SourceTypes :
          stream = [c \in Cameras |-> IF c = "cam1" THEN NewStream(t) ELSE NoStream]
    /\ hist = [c \in Cameras |-> NoHist]
    /\ svc = NoService
    /\ scen = ExampleOff

NextStreams ==
    \/ run_start("cam1")
    \/ run_exit("cam1")
    \/ \E loaded \in BOOLEAN : run_image("cam1", loaded)
    \/ run_break("cam1")
    \/ \E how \in ConnectFailures : run_connect_failed("cam1", how)
    \/ \E ret \in BOOLEAN : run_read_failed("cam1", ret)
    \/ \E ret \in BOOLEAN : run_read("cam1", ret)
    \/ \E dets \in Frames : detect_returns("cam1", dets)
    \/ wake("cam1")
    \/ stop("cam1")

SpecStreams == InitStreams /\ [][NextStreams]_vars

\* One CameraStream on a static image feeding the engine: every frame read goes
\* through _process_frame, with or without detections
CameraFrames == { <<>>, <<Det("person", BoxA)>>, <<Det("person", BoxShort)>> }

InitCamera ==
    /\ InitEngine({"goggles"})
    /\ stream = [c \in Cameras |-> IF c = "cam1" THEN NewStream("image") ELSE NoStream]
    /\ hist = [c \in Cameras |-> NoHist]
    /\ svc = NoService
    /\ scen = ExampleOff

NextCamera ==
    \/ \E d \in TickSteps : Tick(d, MaxTimeCamera)
    \/ set_active_session("s1", EmptyMap)
    \/ run_start("cam1")
    \/ \E loaded \in BOOLEAN : run_image("cam1", loaded)
    \/ \E dets \in CameraFrames : detect_returns("cam1", dets)
    \/ \E outcome \in {"upload_done", "upload_failed"} : upload_returns("cam1", outcome)
    \/ wake("cam1")

SpecCamera == InitCamera /\ [][NextCamera]_vars

\* _calculate_iou alone, applied to every pair of boxes on a small pixel grid
\* (boxes of no width or no height included)
GridBoxes ==
    { <<x1, y1, x2, y2>> : x1 \in 0..MaxCoord, y1 \in 0..MaxCoord,
                           x2 \in 0..MaxCoord, y2 \in 0..MaxCoord }

OrderedBoxes == { b \in GridBoxes : b[1] <= b[3] /\ b[2] <= b[4] }

\* the call _calculate_iou(bbox1, bbox2) about to be made returns: the
\* arguments and the result
iou_call ==
    /\ lastOp.op = "iou_args"
    /\ lastOp' = [Op("calculate_iou", None) EXCEPT
                    !.args = <<lastOp.args[1], lastOp.args[2],
                               calculate_iou(lastOp.args[1], lastOp.args[2])>>]
    /\ UNCHANGED <<now, engineVars, alerts, streak, rearm, session_since, scen, streamVars>>

InitIou ==
    /\ now = 0
    /\ active_session_id = None
    /\ required_ppe = RequiredAtStart({"goggles"})
    /\ people = EmptyMap
    /\ violation_start_times = EmptyMap
    /\ active_violations = {}
    /\ violation_cooldowns = EmptyMap
    /\ call = [c \in Cameras |-> IdleCall]
    /\ alerts = EmptyMap
    /\ streak = EmptyMap
    /\ rearm = EmptyMap
    /\ session_since = -1
    /\ \E bbox1 \in OrderedBoxes, bbox2 \in OrderedBoxes :
          lastOp = [Op("iou_args", None) EXCEPT !.args = <<bbox1, bbox2>>]
    /\ InitStream
    /\ scen = ExampleOff

NextIou == iou_call

SpecIou == InitIou /\ [][NextIou]_vars

\* One CameraStream worker that nobody stops, over an active session, for
\* several configured fps: frames that make the detector or the engine raise
FpsValues == {1, 10, 30, 31}

WorkerSources == {"usb", "file", "image"}

WorkerFrames == { <<>>, <<Det("person", BoxA)>>, <<Det("person", BoxShort)>> }

InitWorker ==
    /\ InitEngine({"goggles"})
    /\ \E t \in WorkerSources, f \in FpsValues :
          stream = [c \in Cameras |-> IF c = "cam1" THEN [NewStream(t) EXCEPT !.fps = f]
                                      ELSE NoStream]
    /\ hist = [c \in Cameras |-> NoHist]
    /\ svc = NoService
    /\ scen = ExampleOff

NextWorker ==
    \/ \E d \in TickSteps : Tick(d, MaxTimeShort)
    \/ set_active_session("s1", EmptyMap)
    \/ run_start("cam1")
    \/ \E loaded \in BOOLEAN : run_image("cam1", loaded)
    \/ run_break("cam1")
    \/ \E how \in ConnectFailures : run_connect_failed("cam1", how)
    \/ \E ret \in BOOLEAN : run_read_failed("cam1", ret)
    \/ \E ret \in BOOLEAN : run_read("cam1", ret)
    \/ \E dets \in WorkerFrames : detect_returns("cam1", dets)
    \/ detect_raises("cam1")
    \/ \E outcome \in {"upload_done", "upload_failed"} : upload_returns("cam1", outcome)
    \/ wake("cam1")

SpecWorker == InitWorker /\ [][NextWorker]_vars

\* CameraManager with its camera workers: start_all_cameras, the workers' runs
\* on the shared event loop, stop_all_cameras
Layouts ==
    { [c \in {"cam1"} |-> "usb"],
      [c \in Cameras |-> IF c = "cam1" THEN "file" ELSE "rtsp"] }

ManagerFrames == { <<>>, <<Det("person", BoxA)>> }

InitManager ==
    /\ InitEngine({"goggles", "lab_coat"})
    /\ InitStream
    /\ scen = ExampleOff

Worker(c) ==
    \/ run_start(c)
    \/ run_break(c)
    \/ \E how \in ConnectFailures : run_connect_failed(c, how)
    \/ \E ret \in BOOLEAN : run_read_failed(c, ret)
    \/ \E ret \in BOOLEAN : run_read(c, ret)
    \/ \E dets \in ManagerFrames : detect_returns(c, dets)
    \/ wake(c)

NextManager ==
    \/ \E types \in Layouts : start_all_cameras(types)
    \/ \E c \in Cameras : Worker(c)
    \/ stop_all_cameras
    \/ \E c \in Cameras : task_cancelled(c)
    \/ stop_all_returns

SpecManager == InitManager /\ [][NextManager]_vars

\* The CameraManager called in any order: start_all_cameras again while it is
\* up, and while stop_all_cameras is suspended
RestartLayouts == { [c \in {"cam1"} |-> "usb"] }

NextRestart ==
    \/ \E types \in RestartLayouts : start_all_cameras(types)
    \/ \E types \in RestartLayouts : start_all_cameras_again(types)
    \/ \E types \in RestartLayouts : start_all_cameras_in_gather(types)
    \/ \E c \in Cameras : Worker(c)
    \/ stop_all_cameras
    \/ \E c \in Cameras : task_cancelled(c)
    \/ stop_all_returns
    \/ stop_all_returns_late
    \/ \E c \in Cameras : orphan_ends(c)

SpecRestart == InitManager /\ [][NextRestart]_vars

\* The session configuration alone: every initial required set the REQUIRE_*
\* settings can give, every config dict over the four recognized keys and one
\* unknown key
ConfigKeys == {"goggles_enabled", "lab_coat_enabled", "gloves_enabled", "helmet_enabled", "foo"}

SessionConfigs == UNION { [D -> BOOLEAN] : D \in SUBSET ConfigKeys }

ConfigSessionIds == {"s1", "s2"}

InitConfig ==
    /\ \E kinds \in SUBSET Kinds : InitEngine(kinds)
    /\ InitStream
    /\ scen = ExampleOff

NextConfig ==
    \/ \E sid \in ConfigSessionIds, config \in SessionConfigs : set_active_session(sid, config)
    \/ clear_active_session

SpecConfig == InitConfig /\ [][NextConfig]_vars

\* The whole service: one camera on a file source, the session poller, and a
\* shutdown that may come at any moment
ServiceLayouts == { [c \in {"cam1"} |-> "file"] }

InitService ==
    /\ InitEngine({"goggles"})
    /\ InitStream
    /\ scen = ExampleOff

\* what the event loop runs: the steps of the tasks and of stop()
ServiceStep ==
    \/ \E c \in Cameras : Worker(c)
    \/ poll_request
    \/ \E r \in PollResults : poll_returns(r, EmptyMap)
    \/ service_stop
    \/ \E c \in Cameras : task_cancelled(c)
    \/ stop_all_returns
    \/ poller_cancelled
    \/ cloud_stop_resumes
    \/ \E outcome \in {"update_done", "update_failed"} : update_returns(outcome)

NextService ==
    \/ \E types \in ServiceLayouts : service_start(types)
    \/ \E c \in Cameras : source_lost(c)
    \/ shutdown
    \/ ServiceStep

\* asyncio runs the ready callbacks in the order they became ready: a step that
\* is ready again and again is run
ServiceFairness ==
    /\ \A c \in Cameras : SF_vars(Worker(c))
    /\ SF_vars(service_stop)
    /\ \A c \in Cameras : SF_vars(task_cancelled(c))
    /\ SF_vars(stop_all_returns)
    /\ SF_vars(poller_cancelled)
    /\ SF_vars(cloud_stop_resumes)
    /\ SF_vars(\E outcome \in {"update_done", "update_failed"} : update_returns(outcome))

SpecService == InitService /\ [][NextService]_vars /\ ServiceFairness

\* The session poller of a service without enabled cameras, with two sessions
PollerResults == {"s1", "s2", None, "error"}

NextPoller ==
    \/ service_start(EmptyMap)
    \/ \E d \in TickSteps : Tick(d, MaxTimeShort)
    \/ poll_request
    \/ \E r \in PollerResults, config \in Configs : poll_returns(r, config)
    \/ shutdown
    \/ service_stop
    \/ poller_cancelled
    \/ cloud_stop_resumes
    \/ \E outcome \in {"update_done", "update_failed"} : update_returns(outcome)

SpecPoller == InitService /\ [][NextPoller]_vars

\* C13: once the shutdown of the application has begun, EdgeControllerService.stop
\* eventually returns, with every camera worker and the session poller
\* terminated and every source handle released.
ServiceStopped ==
    /\ svc.pc = "service_stopped"
    /\ svc.poller = "cancelled"
    /\ \A c \in Cameras :
          stream[c].pc # "absent" => Terminated(c) /\ stream[c].cap = "none"

C13_StopAlwaysCompletes == svc.shutdown ~> ServiceStopped

----------------------------------------------------------------------------
(* Properties.                                                             *)

EngineOps == {"process_detections", "upload_done", "upload_failed"}

\* C1: in a run of evaluations of a key that all show the required PPE
\* missing, begun at t0 with no violation state for the key, no alert is
\* emitted while the frame time t has t - t0 < violation_debounce_seconds, and
\* exactly one alert is emitted, at the first frame with
\* t - t0 >= violation_debounce_seconds.
C1_DebounceThenOneAlert ==
    \A key \in DOMAIN streak :
        /\ streak[key].over = {} => streak[key].alertsAt = <<>>
        /\ \A t \in streak[key].over : streak[key].alertsAt = <<t>>

C1_Witness ==
    \E e \in lastOp.evals :
        /\ e.key \in DOMAIN streak
        /\ streak[e.key].alertsAt # <<>>
        /\ streak[e.key].alertsAt[1] >= streak[e.key].t0 + violation_debounce_seconds
        /\ ~e.has
        /\ ~e.alerted

\* C2: after an alert for a key was emitted at time ta, no frame evaluated at
\* a frame time t < ta + violation_cooldown_seconds emits an alert for that
\* key, whether the frame shows the PPE or not.
C2_NoAlertInCooldown ==
    \A e \in lastOp.evals :
        \A a \in e.prev :
            e.pnow < a.t + violation_cooldown_seconds => ~e.alerted

C2_Witness ==
    \E e \in lastOp.evals :
        \E a \in e.prev :
            /\ e.pnow < a.t + violation_cooldown_seconds
            /\ e.pnow > a.t
            /\ ~e.has

\* C3: the worked example.  Debounce 2 s, cooldown 5 s, goggles required, one
\* person seen without goggles in the frames at 0, 2.1, 3.0 and 7.2 s and in
\* no other frame: one alert at 2.1 s, none at 3.0 s, a second alert at 7.2 s.
C3_PersistingViolationAlertsAgain ==
    (scen.on /\ scen.ok /\ scen.seen = ExampleTimes) =>
        scen.alertsAt = <<ExampleTimes[2], ExampleTimes[4]>>

\* C4: when a key is pending since t0 without an alert and a frame evaluated
\* before t0 + violation_debounce_seconds shows the PPE, no alert is emitted and
\* the pending start time is gone; the frame in which the PPE is next seen
\* missing starts the debounce window anew, at its own frame time.
C4_RegainClearsPending ==
    /\ \A e \in lastOp.evals :
          /\ (e.has /\ ~e.pre_av /\ e.pre_cd = {} /\
              \E t0 \in e.pre_st : e.pnow - t0 < violation_debounce_seconds)
                => (~e.alerted /\ e.post_st = {})
          /\ (~e.has /\ e.pre_st = {} /\ e.pre_cd = {})
                => (e.post_st = {e.pnow} /\ ~e.alerted)
    /\ \A key \in DOMAIN streak :
          /\ key \in DOMAIN violation_start_times
          /\ violation_start_times[key] = streak[key].t0

C4_Witness ==
    \E e \in lastOp.evals :
        /\ e.has
        /\ ~e.pre_av
        /\ \E t0 \in e.pre_st : e.pnow > t0 /\ e.pnow - t0 < violation_debounce_seconds
        /\ e.key \notin DOMAIN violation_start_times

\* C5: a process_detections call made while no session is active emits no
\* alert and changes neither the trackers, the pending start times, the active
\* violations, the cooldowns nor the required-PPE set.
C5_NoSessionNoEffect ==
    [][(lastOp'.op = "process_detections" /\ NoActiveSession(active_session_id))
         => UNCHANGED <<people, violation_start_times, active_violations,
                        violation_cooldowns, required_ppe, alerts, call>>]_vars

C5_Witness ==
    /\ lastOp.op = "process_detections"
    /\ lastOp.nd > 0
    /\ NoActiveSession(active_session_id)
    /\ DOMAIN people # {}
    /\ DOMAIN violation_start_times # {}

\* C6: of the frames read from a connected source that is not a static image,
\* exactly every floor(30 / fps)-th is forwarded: after n frames read,
\* ceil(n / floor(30 / fps)) were forwarded.
C6_EveryStrideFrameForwarded ==
    \A c \in Cameras :
        stream[c].source_type \in {"rtsp", "usb", "file"} =>
            hist[c].forwarded = (hist[c].reads + FrameStride - 1) \div FrameStride

\* C7: connect attempts never fail more than max_reconnect_attempts times in
\* a row; each failed attempt is followed by the reconnect wait; after the
\* max_reconnect_attempts-th failure in a row the stream holds no source and
\* goes from its wait to the end of run(); and run(), once it has returned,
\* connects, reads and forwards nothing more.
C7_StopsAfterMaxFailures ==
    /\ [](\A c \in Cameras :
            /\ hist[c].cfails <= max_reconnect_attempts
            /\ hist[c].cwaits = hist[c].cfails
            /\ hist[c].cfails = max_reconnect_attempts =>
                  /\ stream[c].cap # "open"
                  /\ stream[c].reconnect_attempts >= max_reconnect_attempts
                  /\ stream[c].pc \in {"wait_reconnect", "loop", "done"}
            /\ (stream[c].pc = "done" /\ stream[c].running /\ hist[c].connected = 0) =>
                  hist[c].cfails = max_reconnect_attempts)
    /\ [][\A c \in Cameras :
            (stream[c].pc = "done" \/
             (stream[c].pc = "loop" /\ hist[c].cfails = max_reconnect_attempts)) =>
                (stream'[c].pc \in {stream[c].pc, "done"} /\
                 hist'[c].reads = hist[c].reads /\
                 hist'[c].forwarded = hist[c].forwarded /\
                 hist'[c].cfails = hist[c].cfails /\
                 hist'[c].cwaits = hist[c].cwaits /\
                 hist'[c].connected = hist[c].connected /\
                 stream'[c].cap # "open")]_vars

C7_Witness ==
    \E c \in Cameras :
        /\ stream[c].pc = "done"
        /\ stream[c].running
        /\ hist[c].cfails = max_reconnect_attempts

\* C8: a failed read on a connected file source seeks back to position zero
\* and goes on with the same handle: reconnect_attempts is unchanged, the
\* handle is not released and run() does not end.
C8_FileEndRewinds ==
    [][\A c \in Cameras :
          (lastOp'.op = "read_failed" /\ lastOp'.cam = c /\
           stream[c].source_type = "file") =>
             /\ stream'[c].cap = "open"
             /\ stream'[c].pos = 0
             /\ stream'[c].pc = "loop"
             /\ stream'[c].reconnect_attempts = Connected(stream[c]).reconnect_attempts
             /\ hist'[c].reads = hist[c].reads]_vars

C8_Witness ==
    \E c \in Cameras :
        /\ lastOp.op = "read_failed"
        /\ lastOp.cam = c
        /\ stream[c].source_type = "file"
        /\ stream[c].pos = 0
        /\ hist[c].reads > 0

\* C9: once a frame has been handled under an active session, no tracker that
\* the frame did not refresh is left with a last-seen time more than 5 seconds
\* back: such a tracker has been removed from the tracked set.
C9_SilentTrackersExpire ==
    (/\ lastOp.op \in {"process_detections", "detect_empty"}
     /\ ~NoActiveSession(active_session_id)
     /\ ~lastOp.raised) =>
        \A pid \in DOMAIN people : now - people[pid].last_seen <= TrackerSilence

\* C10: while one camera's process_detections call is between its start and
\* its return, no other camera's call reads or writes the engine's state.
C10_MutualExclusion ==
    \A c \in Cameras :
        call[c].pc = "upload" =>
            ~(lastOp.op \in EngineOps /\ lastOp.cam # c /\ ~lastOp.gated)

\* C11: every iteration of CameraStream.run ends at a suspension point: after
\* a failed connect, a failed read (on a file source too) and a frame read, the
\* worker is in an await, so the other workers can run.
SuspensionPoints == {"wait_reconnect", "wait_image", "wait_frame", "detect", "engine"}

C11_EveryIterationSuspends ==
    \A c \in Cameras :
        (lastOp.cam = c /\ lastOp.op \in {"connect_failed", "read_failed", "read_ok"}) =>
            stream[c].pc \in SuspensionPoints

\* C12: once stop_all_cameras has returned, every stream that start_all_cameras
\* started has running = False and no source handle, its worker task has
\* finished, and the streams and tasks dicts are empty.
C12_StopAllLeavesNothing ==
    svc.pc = "stopped" =>
        /\ svc.streams = {}
        /\ svc.tasks = {}
        /\ \A c \in Cameras :
              stream[c].pc # "absent" =>
                  /\ ~stream[c].running
                  /\ stream[c].cap = "none"
                  /\ Terminated(c)

C12_Witness ==
    /\ svc.pc = "stopped"
    /\ \E c \in Cameras : stream[c].pc = "cancelled" /\ hist[c].reads > 0
    /\ \E c \in Cameras : stream[c].pc = "done"

\* C14: a confirmed violation makes exactly one upload_violation call; when the
\* call fails, nothing is raised into the engine, the call goes on, the key is
\* still active with the cooldown the alert set, no second upload is made for
\* it, and an active key is never alerted again.
C14_FailedUploadKeepsTransition ==
    /\ [](\A e \in lastOp.evals :
            /\ e.alerted =>
                  /\ alerts[e.key].n = (IF e.prev = {} THEN 1
                                        ELSE (CHOOSE a \in e.prev : TRUE).n + 1)
                  /\ e.post_av
                  /\ e.post_cd = {alerts[e.key].t + violation_cooldown_seconds}
            /\ e.pre_av => ~e.alerted)
    /\ [][\A c \in Cameras :
            (call[c].pc = "upload" /\ lastOp'.op = "upload_failed" /\ lastOp'.cam = c) =>
                LET key == PendingKey(c)
                IN  /\ ~lastOp'.raised
                    /\ key \in active_violations /\ key \in active_violations'
                    /\ key \in DOMAIN violation_cooldowns'
                    /\ violation_cooldowns'[key] = violation_cooldowns[key]
                    /\ violation_cooldowns'[key] = alerts[key].t + violation_cooldown_seconds
                    /\ alerts'[key] = alerts[key]
                    /\ \A e \in lastOp'.evals : e.key # key
                    /\ call'[c].pc \in {"idle", "upload"}]_vars

C14_Witness ==
    /\ lastOp.op = "upload_failed"
    /\ \E key \in active_violations :
          /\ key \in DOMAIN violation_cooldowns
          /\ key \in DOMAIN alerts
          /\ alerts[key].n = 1
          /\ violation_cooldowns[key] = alerts[key].t + violation_cooldown_seconds

\* the config key that carries the requirement of a PPE kind
ConfigKey(kind) == kind \o "_enabled"

\* C15: set_active_session(id, config) sets the active session id; a kind whose
\* key <kind>_enabled is in config gets the supplied value, a kind whose key is
\* absent keeps its requirement, unknown keys change nothing; required_ppe
\* always has exactly the keys goggles, lab_coat, gloves, helmet.
C15_ConfigMergesIntoRequired ==
    /\ [](DOMAIN required_ppe = {"goggles", "lab_coat", "gloves", "helmet"})
    /\ [][lastOp'.op = "set_active_session" =>
            LET session_id == lastOp'.args[1]
                config == lastOp'.args[2]
            IN  /\ active_session_id' = session_id
                /\ \A kind \in DOMAIN required_ppe :
                      required_ppe'[kind] =
                          IF ConfigKey(kind) \in DOMAIN config THEN config[ConfigKey(kind)]
                          ELSE required_ppe[kind]]_vars

C15_Witness ==
    /\ lastOp.op = "set_active_session"
    /\ active_session_id = "s2"
    /\ LET config == lastOp.args[2]
       IN  /\ DOMAIN config = {"goggles_enabled", "helmet_enabled", "foo"}
           /\ ~config["goggles_enabled"] /\ config["helmet_enabled"] /\ config["foo"]
    /\ required_ppe = [kind \in Kinds |-> kind \in {"lab_coat", "helmet"}]

\* C16: a worker nobody stopped has terminated only if its reconnect attempts
\* are exhausted, for every positive fps; when the detector or the engine
\* raises while a forwarded frame is processed, the worker goes on to its
\* sleep with its source handle and reconnect counter unchanged.
C16_OnlyReconnectExhaustionTerminates ==
    /\ [](\A c \in Cameras :
            (stream[c].running /\ stream[c].fps > 0 /\ Terminated(c)) =>
                /\ stream[c].pc = "done"
                /\ stream[c].reconnect_attempts >= max_reconnect_attempts)
    /\ [][\A c \in Cameras :
            (stream[c].pc = "detect" /\ lastOp'.cam = c /\ lastOp'.raised) =>
                /\ stream'[c].pc \in {"wait_image", "wait_frame"}
                /\ stream'[c].cap = stream[c].cap
                /\ stream'[c].reconnect_attempts = stream[c].reconnect_attempts
                /\ stream'[c].running]_vars

\* a bbox with four coordinates that spans a positive area
WellFormedBox(bbox) == Len(bbox) = 4 /\ bbox[3] > bbox[1] /\ bbox[4] > bbox[2]

\* C17: a detection with a missing or degenerate bounding box is dropped on its
\* own: processing of its frame goes on (no process_detections call is aborted
\* by it) and no tracker is created or updated from such a box.
C17_MalformedDetectionsDropped ==
    /\ lastOp.op = "process_detections" => ~lastOp.raised
    /\ \A pid \in DOMAIN people : WellFormedBox(people[pid].bbox)

\* two boxes that share no area (they may touch on an edge or a corner)
NoOverlap(A, B) == A[3] <= B[1] \/ B[3] <= A[1] \/ A[4] <= B[2] \/ B[4] <= A[2]

\* equality of two fractions with positive denominators
SameFraction(p, q) == p[1] * q[2] = q[1] * p[2]

\* C18: for boxes A and B with x2 > x1 and y2 > y1, IoU(A,B) = IoU(B,A);
\* IoU(A,B) = 0 when A and B do not overlap, also when they only touch;
\* IoU(A,A) = 1; and 0 <= IoU(A,B) <= 1.
C18_IouAlgebra ==
    lastOp.op = "calculate_iou" =>
        LET A == lastOp.args[1]
            B == lastOp.args[2]
            iou == lastOp.args[3]
        IN  (WellFormedBox(A) /\ WellFormedBox(B)) =>
                /\ iou[2] > 0
                /\ SameFraction(iou, calculate_iou(B, A))
                /\ NoOverlap(A, B) => iou[1] = 0
                /\ A = B => iou[1] = iou[2]
                /\ 0 <= iou[1] /\ iou[1] <= iou[2]

C18_Witness ==
    /\ lastOp.op = "calculate_iou"
    /\ WellFormedBox(lastOp.args[1]) /\ WellFormedBox(lastOp.args[2])
    /\ lastOp.args[1] # lastOp.args[2]
    /\ ~NoOverlap(lastOp.args[1], lastOp.args[2])
    /\ 0 < lastOp.args[3][1] /\ lastOp.args[3][1] < lastOp.args[3][2]

\* a frame of camera c is inside _process_frame
Processing(c) == stream[c].pc \in {"detect", "engine"}

\* C19: a camera's forwarded frames are processed one at a time and in the
\* order they were read: a frame is forwarded only when no frame of that camera
\* is being processed and no process_detections call of it is in flight; while
\* a frame is processed the camera reads no further frame; and the engine is
\* called for a camera only with the frame that camera is processing.
C19_FramesInCaptureOrder ==
    /\ [](\A c \in Cameras : call[c].pc # "idle" => stream[c].pc = "engine")
    /\ [][\A c \in Cameras :
            /\ hist'[c].forwarded # hist[c].forwarded =>
                  /\ hist'[c].forwarded = hist[c].forwarded + 1
                  /\ hist'[c].reads = hist[c].reads + 1
                  /\ ~Processing(c)
                  /\ call[c].pc = "idle"
                  /\ stream'[c].pc = "detect"
            /\ Processing(c) => hist'[c].reads = hist[c].reads
            /\ (lastOp'.op = "process_detections" /\ lastOp'.cam = c) =>
                  stream[c].pc = "detect"]_vars

C19_Witness ==
    \E c \in Cameras :
        /\ stream[c].source_type = "usb"
        /\ stream[c].pc = "engine"
        /\ call[c].pc = "upload"
        /\ hist[c].forwarded >= 3
        /\ stream[c].frame_count = hist[c].forwarded - 1

\* C20: alert confirmation writes the Active entry and the cooldown deadline
\* of a key in one step, before alert emission suspends.  In every state (the
\* points where another worker or the poller can run) an active key carries
\* the cooldown set by the alert that made it active, unless that cooldown has
\* expired and was removed; a key becomes active only in a step that also
\* sets its cooldown and makes its one upload call.
C20_ActiveAndCoolingTogether ==
    /\ [](\A key \in active_violations :
            /\ key \in DOMAIN alerts
            /\ IF key \in DOMAIN violation_cooldowns
               THEN violation_cooldowns[key] = alerts[key].t + violation_cooldown_seconds
               ELSE now >= alerts[key].t + violation_cooldown_seconds)
    /\ [][\A key \in active_violations' \ active_violations :
            /\ key \in DOMAIN violation_cooldowns'
            /\ violation_cooldowns'[key] = now + violation_cooldown_seconds
            /\ alerts'[key].t = now
            /\ alerts'[key].n = (IF key \in DOMAIN alerts THEN alerts[key].n + 1 ELSE 1)
            /\ call'[key[1]].pc = "upload"]_vars

C20_Witness ==
    /\ call["cam1"].pc = "upload"
    /\ PendingKey("cam1") \in active_violations
    /\ PendingKey("cam1") \in DOMAIN violation_cooldowns
    /\ lastOp.op = "process_detections" /\ lastOp.cam = "cam2" /\ ~lastOp.gated
    /\ lastOp.evals # {}

\* the evaluation e found its key outside an unexpired cooldown
OutsideCooldown(e) == \A until \in e.pre_cd : e.pnow >= until

\* C21: when a frame evaluated for a required kind shows the person with the
\* PPE and the key is not inside an unexpired cooldown, then after the frame
\* the key has no pending start time, no Active entry and no cooldown entry,
\* and no alert was emitted for it.
C21_ComplianceClearsKey ==
    \A e \in lastOp.evals :
        (e.has /\ OutsideCooldown(e)) =>
            /\ ~e.alerted
            /\ e.post_st = {} /\ ~e.post_av /\ e.post_cd = {}
            /\ e.key \notin DOMAIN violation_start_times
            /\ e.key \notin active_violations
            /\ e.key \notin DOMAIN violation_cooldowns
            /\ (e.key \in DOMAIN alerts) => e.prev = {alerts[e.key]}

C21_Witness ==
    \E e \in lastOp.evals :
        /\ e.has
        /\ e.pre_av
        /\ e.pre_st # {}
        /\ e.pre_cd # {} /\ OutsideCooldown(e)

\* C22: while a key's cooldown has not expired, an evaluation of the key,
\* with or without the PPE in the frame, emits no alert and leaves its start
\* time, Active entry and cooldown as they were; the first evaluation at or
\* past the deadline removes the cooldown entry and evaluates the key as a key
\* without cooldown is evaluated.
C22_CooldownSkipsThenExpires ==
    \A e \in lastOp.evals :
        \A until \in e.pre_cd :
            IF e.pnow < until
            THEN /\ ~e.alerted
                 /\ e.post_st = e.pre_st
                 /\ e.post_av = e.pre_av
                 /\ e.post_cd = e.pre_cd
            ELSE /\ until \notin e.post_cd
                 /\ e.alerted \/ e.post_cd = {}
                 /\ e.has => (e.post_st = {} /\ ~e.post_av /\ ~e.alerted)
                 /\ ~e.has =>
                       /\ e.post_st = (IF e.pre_st = {} THEN {e.pnow} ELSE e.pre_st)
                       /\ e.post_av = (e.pre_av \/ e.alerted)
                       /\ e.alerted =
                             (/\ ~e.pre_av
                              /\ \A t0 \in e.post_st :
                                    e.pnow - t0 >= violation_debounce_seconds)

C22_Witness ==
    \E e \in lastOp.evals :
        \E until \in e.pre_cd :
            /\ e.pnow >= until
            /\ ~e.has
            /\ e.post_cd = {}
            /\ alerts[e.key].t + violation_cooldown_seconds = until

\* C23: one process_detections invocation works on one snapshot of the session
\* configuration: every alert it sends carries the session id that was in
\* force at its session gate, and every kind it evaluates was required then,
\* also in the part of the invocation that runs after a suspension.  No alert
\* carries an absent session id.
C23_OneConfigSnapshotPerFrame ==
    /\ [](\A key \in DOMAIN alerts : ~NoActiveSession(alerts[key].session))
    /\ [][\A c \in Cameras :
            (call[c].pc = "upload" /\ lastOp'.cam = c
                /\ lastOp'.op \in {"upload_done", "upload_failed"}) =>
                \A e \in lastOp'.evals :
                    /\ e.key[3] \in call[c].gate.req
                    /\ e.alerted => alerts'[e.key].session = call[c].gate.sid]_vars

\* the persons of the frame process_detections has just tracked, times the
\* kinds required
KeysOfFrame ==
    { ViolationKey(lastOp.cam, pid, kind) :
        pid \in lastOp.current, kind \in {k \in Kinds : required_ppe[k]} }

\* C24: after a process_detections call was cancelled in its upload or aborted
\* by an exception, the next frames of the camera emit no second alert for a
\* key whose alert was attempted in the cancelled call, and evaluate the frame
\* as any frame is evaluated: each evaluation's outcome follows from the key's
\* entries alone, and a call that runs to its end evaluates every person of its
\* frame for every required kind.
C24_AbandonedCallLeavesConsistentState ==
    /\ \A c \in Cameras : \A key \in hist[c].abandoned :
          /\ key \in active_violations
          /\ alerts[key].n = 1
    /\ \A e \in lastOp.evals :
          /\ e.pre_av => ~e.alerted
          /\ (~e.has /\ OutsideCooldown(e)) =>
                /\ e.post_st = (IF e.pre_st = {} THEN {e.pnow} ELSE e.pre_st)
                /\ e.alerted =
                      (/\ ~e.pre_av
                       /\ \A t0 \in e.post_st : e.pnow - t0 >= violation_debounce_seconds)
    /\ (lastOp.op = "process_detections" /\ ~lastOp.gated /\ ~lastOp.raised
          /\ call[lastOp.cam].pc = "idle") =>
              {e.key : e \in lastOp.evals} = KeysOfFrame

C24_Witness ==
    /\ lastOp.op = "process_detections"
    /\ call[lastOp.cam].pc = "upload"
    /\ \E e \in lastOp.evals :
          /\ e.key \in hist[lastOp.cam].abandoned
          /\ ~e.has /\ ~e.alerted
    /\ \E e \in lastOp.evals :
          /\ e.key \notin hist[lastOp.cam].abandoned
          /\ e.alerted

\* the step is a connect attempt or a read of camera c's worker
ConnectsOrReads(c) ==
    /\ lastOp'.cam = c
    /\ lastOp'.op \in {"read_ok", "read_failed", "connect_failed", "zero_division"}

\* C25: once stop() was called on a stream its worker makes no further connect
\* attempt and no further read, and a worker that reaches its loop check
\* leaves the loop there.
C25_StoppedWorkerDoesNothingMore ==
    [][\A c \in Cameras :
          hist[c].stopped =>
              /\ ~ConnectsOrReads(c)
              /\ (stream[c].pc = "loop" /\ stream'[c] # stream[c]) =>
                    stream'[c].pc = "done"]_vars

\* the source types of network streams and devices
LiveSources == {"rtsp", "usb"}

\* camera c's worker waits, or stands at its loop test, after a failed read of
\* a live source and before the connect attempt that follows it
ReadFailurePending(c) ==
    /\ hist[c].rfail = "pending"
    /\ hist[c].cfails = 0
    /\ stream[c].pc \in {"wait_reconnect", "loop"}
    /\ stream[c].running

\* the step connects camera c's source: _connect returns True
ConnectSucceeds(c) ==
    /\ lastOp'.cam = c
    /\ lastOp'.op \in {"read_ok", "read_failed", "zero_division"}
    /\ NotConnected(stream[c])

SessionOnlyStep ==
    \/ lastOp'.op = "clear_active_session"
    \/ /\ lastOp'.op = "set_active_session"
       /\ DOMAIN lastOp'.args[2] = {}

\* C27: clear_active_session sets the active session id to None and leaves the
\* tracker map, the pending start times, the Active entries, the cooldown
\* deadlines and the required-PPE set as they were; set_active_session without
\* config sets the id and leaves them as they were too.
C27_ClearChangesOnlySessionId ==
    [][SessionOnlyStep =>
          /\ UNCHANGED <<required_ppe, people, violation_start_times,
                         active_violations, violation_cooldowns>>
          /\ active_session_id' =
                IF lastOp'.op = "clear_active_session" THEN None ELSE lastOp'.args[1]]_vars

\* the session is cleared while a person is tracked and the three tables
\* hold entries
C27_Witness ==
    /\ lastOp.op = "clear_active_session"
    /\ active_session_id = None
    /\ DOMAIN people # {}
    /\ DOMAIN violation_start_times # {}
    /\ active_violations # {}
    /\ DOMAIN violation_cooldowns # {}

\* what the three tables and the alert log hold for a key
EntriesOf(key, st, av, cd, log) ==
    [st |-> IF key \in DOMAIN st THEN {st[key]} ELSE {},
     av |-> key \in av,
     cd |-> IF key \in DOMAIN cd THEN {cd[key]} ELSE {},
     n |-> IF key \in DOMAIN log THEN log[key].n ELSE 0]

\* the keys with an entry in a table before or after the step
KeysInTables ==
    DOMAIN violation_start_times \cup active_violations \cup DOMAIN violation_cooldowns
        \cup DOMAIN violation_start_times' \cup active_violations'
        \cup DOMAIN violation_cooldowns'

\* C28: a block of frame evaluation evaluates no key of a PPE kind that is not
\* required, emits no alert for it, and leaves the pending, Active and
\* cooldown entries of every key of that kind as they were, present or absent.
C28_NotRequiredKindUntouched ==
    [][lastOp'.op \in {"process_detections", "upload_done", "upload_failed"} =>
          /\ \A e \in lastOp'.evals : required_ppe[e.key[3]]
          /\ \A key \in KeysInTables :
                ~required_ppe[key[3]] =>
                    EntriesOf(key, violation_start_times', active_violations',
                              violation_cooldowns', alerts')
                      = EntriesOf(key, violation_start_times, active_violations,
                                  violation_cooldowns, alerts)]_vars

\* a frame is evaluated for a person whose goggles key is Active with an
\* expired cooldown entry while goggles is no longer required
C28_Witness ==
    /\ lastOp.op = "process_detections"
    /\ ~lastOp.gated /\ ~lastOp.raised
    /\ ~required_ppe["goggles"]
    /\ \E pid \in lastOp.current :
          LET key == ViolationKey(lastOp.cam, pid, "goggles")
          IN  /\ key \in active_violations
              /\ key \in DOMAIN violation_cooldowns
              /\ violation_cooldowns[key] <= now

\* the elements of a sequence
Range(s) == {s[i] : i \in 1..Len(s)}

\* the PPE detections of a detection list that lie on a box: IoU with it at
\* least iou_threshold
PpeOn(dets, bbox) ==
    { d \in Range(dets) :
        /\ IsPPE(d)
        /\ d.bbox # <<>>
        /\ IouAtLeastThreshold(calculate_iou(bbox, d.bbox)) }

\* PersonTracker.ppe[kind]: the tracker's detections of a lower-cased class
PpeOfKind(tracker, kind) ==
    SelectSeq(tracker.ppe, LAMBDA d : Lower(d.class) = kind)

\* C29: after a frame was tracked, the PPE map of every tracker seen in it
\* holds exactly the frame's PPE detections whose IoU with the tracker's box is
\* at least iou_threshold, under their lower-cased class, and has_ppe(kind) is
\* decided by the frame alone.
C29_TrackerHoldsThisFrameOnly ==
    (lastOp.op = "process_detections" /\ ~lastOp.gated /\ ~lastOp.raised) =>
        \A pid \in lastOp.current :
            LET tracker == people[pid]
                on == PpeOn(lastOp.args[2], tracker.bbox)
            IN  /\ Range(tracker.ppe) = on
                /\ tracker.last_seen = now
                /\ \A kind \in Kinds :
                      /\ Range(PpeOfKind(tracker, kind)) = {d \in on : Lower(d.class) = kind}
                      /\ has_ppe(tracker, kind) <=> \E d \in on : Lower(d.class) = kind

\* a person tracked with goggles in an earlier frame is seen without any PPE,
\* and the tracker's map is empty
C29_Witness ==
    /\ lastOp.op = "process_detections"
    /\ ~lastOp.gated /\ ~lastOp.raised
    /\ lastOp.args[2] = <<Det("person", BoxA)>>
    /\ \E pid \in lastOp.current :
          /\ people[pid].ppe = <<>>
          /\ ViolationKey("cam1", pid, "lab_coat") \in DOMAIN violation_start_times
          /\ ViolationKey("cam1", pid, "goggles") \in DOMAIN violation_start_times
          /\ violation_start_times[ViolationKey("cam1", pid, "goggles")]
                > violation_start_times[ViolationKey("cam1", pid, "lab_coat")]

\* the boxes of the person detections of a list that carry a box, in order
PersonBoxes(dets) ==
    LET withBox == SelectSeq(dets, LAMBDA d : IsPerson(d) /\ d.bbox # <<>>)
    IN  [i \in 1..Len(withBox) |-> withBox[i].bbox]

\* the IoU of two boxes is at least iou_threshold
OverlapsEnough(b1, b2) ==
    LET iou == calculate_iou(b1, b2)
    IN  iou[1] * iou_threshold_den >= iou_threshold_num * iou[2]

\* C30: in a tracked frame every person detection is matched on its own: its
\* matched PPE are the frame's PPE detections whose IoU with its box is at
\* least iou_threshold, whatever other persons they are matched to, and no
\* PPE detection below the threshold.
C30_MatchingPerPersonNonExclusive ==
    (lastOp.op = "process_detections" /\ ~lastOp.gated /\ ~lastOp.raised) =>
        LET dets == lastOp.args[2]
            boxes == PersonBoxes(dets)
        IN  /\ Len(lastOp.matched) = Len(boxes)
            /\ \A i \in 1..Len(boxes) :
                  /\ lastOp.matched[i].bbox = boxes[i]
                  /\ \A d \in Range(dets) :
                        (IsPPE(d) /\ d.bbox # <<>>) =>
                            (d \in Range(lastOp.matched[i].ppe)
                                <=> OverlapsEnough(boxes[i], d.bbox))

\* one frame in which a goggles detection is matched to two persons and a lab
\* coat detection to one of them only
C30_Witness ==
    /\ lastOp.op = "process_detections"
    /\ ~lastOp.gated /\ ~lastOp.raised
    /\ Len(lastOp.matched) = 2
    /\ lastOp.matched[1].bbox # lastOp.matched[2].bbox
    /\ \E d \in Range(lastOp.args[2]) :
          /\ Lower(d.class) = "goggles"
          /\ d \in Range(lastOp.matched[1].ppe)
          /\ d \in Range(lastOp.matched[2].ppe)
    /\ \E d \in Range(lastOp.args[2]) :
          /\ Lower(d.class) = "lab_coat"
          /\ d \in Range(lastOp.matched[1].ppe)
          /\ d \notin Range(lastOp.matched[2].ppe)
    /\ people[generate_person_id(BoxC, "cam1")].ppe = lastOp.matched[2].ppe

\* C31: once a key was alerted and an evaluation since has shown the person
\* with the PPE (inside the cooldown or after it), a run of evaluations past
\* the cooldown deadline that all show the PPE missing does not last
\* violation_debounce_seconds without a new alert for the key.
C31_RealertAfterCompliance ==
    \A key \in DOMAIN rearm : ~rearm[key].overdue

\* the keys with an entry in one of the three tables
TableKeys ==
    DOMAIN violation_start_times \cup active_violations \cup DOMAIN violation_cooldowns

\* C32: a key has entries only while its person is tracked (the entries go
\* when the tracker is removed), and the frame in which a person is detected
\* with no tracker emits no alert for that person: its debounce window starts
\* with that frame.
C32_ExpiryClearsTables ==
    /\ [](\A key \in TableKeys : key[2] \in DOMAIN people)
    /\ [][lastOp'.op = "process_detections" =>
            \A e \in lastOp'.evals :
                e.key[2] \notin DOMAIN people => ~e.alerted]_vars

\* C33: an alert is emitted only for a key whose pending start time lies in
\* the session in force: the PPE has been seen missing for
\* violation_debounce_seconds in frames of this session, and a start time
\* left over from a session that was cleared does not advance the alert.
C33_DebounceWithinSession ==
    lastOp.op \in {"process_detections", "upload_done", "upload_failed"} =>
        \A e \in lastOp.evals :
            e.alerted => \A t0 \in e.post_st : t0 >= session_since

\* C34: a worker that left its loop by giving up (not by stop()) has failed
\* max_reconnect_attempts connect attempts in a row since its last successful
\* connect, and a read failure has not used up one of them: right after a
\* failed read of a live source the counter is still 0.
C34_ReadFailureCostsNoAttempt ==
    \A c \in Cameras :
        /\ (stream[c].pc = "done" /\ stream[c].running /\ ~hist[c].stopped) =>
              hist[c].cfails = max_reconnect_attempts
        /\ (lastOp.op = "read_failed" /\ lastOp.cam = c
              /\ stream[c].source_type \in LiveSources) =>
              stream[c].reconnect_attempts = 0

\* C35: whatever the order of the start_all_cameras and stop_all_cameras
\* calls, no camera id has two unfinished worker tasks, and once
\* stop_all_cameras has returned no worker task that start_all_cameras created
\* is unfinished.
C35_OneWorkerPerCamera ==
    /\ \A c \in Cameras : ~(c \in svc.orphans /\ LiveTask(c))
    /\ svc.pc = "stopped" => svc.orphans = {} /\ \A c \in Cameras : ~LiveTask(c)

\* C36: a poll that returns delivers "start" exactly when it found a session
\* whose id differs from what the previous returned query found, delivers
\* "stop" only when it found none and the previous returned query had found a
\* session (its start was the last command delivered), and leaves
\* active_session_id equal to the id it found, or unset when it found none.
C36_PollerFollowsLatestSession ==
    [][lastOp'.op = "poll_returns" =>
          LET result == lastOp'.args[1]
              command == lastOp'.args[2]
          IN  /\ command = "start" <=> (result \in {"s1", "s2"} /\ result # svc.observed)
              /\ command = "stop" => (result = None /\ svc.observed \in {"s1", "s2"})
              /\ result # "error" => active_session_id' = result
              /\ result = "error" => active_session_id' = active_session_id]_vars

\* the session found by the previous query is found again and no command is delivered
C36_Witness ==
    /\ lastOp.op = "poll_returns"
    /\ lastOp.args = <<"s2", "none">>
    /\ active_session_id = "s2"

\* the trackers and table entries that belong to a camera other than a
OthersTrackers(P, a) == {pid \in DOMAIN P : pid[1] # a}

\* C37: a block of process_detections for camera a leaves the pending, Active
\* and cooldown entries of every key of another camera as they were, present
\* or absent, creates and changes no tracker of another camera, and removes
\* one only if it has been silent for more than 5 seconds.
C37_OtherCamerasUntouched ==
    [][lastOp'.op \in {"process_detections", "upload_done", "upload_failed"} =>
          LET a == lastOp'.cam
          IN  /\ \A key \in KeysInTables :
                    key[1] # a =>
                        EntriesOf(key, violation_start_times, active_violations,
                                  violation_cooldowns, EmptyMap)
                        = EntriesOf(key, violation_start_times', active_violations',
                                    violation_cooldowns', EmptyMap)
              /\ OthersTrackers(people', a) \subseteq OthersTrackers(people, a)
              /\ \A pid \in OthersTrackers(people, a) :
                    IF pid \in DOMAIN people'
                    THEN people'[pid] = people[pid]
                    ELSE now - people[pid].last_seen > TrackerSilence]_vars

\* a call for cam2 removes the silent tracker of cam1 while cam1's key is pending
C37_Witness ==
    /\ lastOp.op = "process_detections"
    /\ lastOp.cam = "cam2"
    /\ \E pid \in lastOp.expired : pid[1] = "cam1"
    /\ \E key \in DOMAIN violation_start_times : key[1] = "cam1"
    /\ lastOp.evals # {}

\* C38: every key with a cooldown deadline is Active and every Active key has
\* a pending start time; a key becomes Active only in a block that emits its
\* alert, and stops being Active only in a block that evaluates it with the
\* PPE present at or after its cooldown deadline, if it had one.
C38_TablesNested ==
    /\ [](/\ DOMAIN violation_cooldowns \subseteq active_violations
          /\ active_violations \subseteq DOMAIN violation_start_times)
    /\ [][/\ \A key \in active_violations' \ active_violations :
                \E e \in lastOp'.evals : e.key = key /\ e.alerted
          /\ \A key \in active_violations \ active_violations' :
                \E e \in lastOp'.evals :
                    /\ e.key = key
                    /\ e.has
                    /\ \A deadline \in e.pre_cd : e.pnow >= deadline]_vars

\* a frame after the cooldown shows the PPE and the key stops being Active
C38_Witness ==
    /\ lastOp.op = "process_detections"
    /\ \E e \in lastOp.evals :
          /\ e.has
          /\ e.pre_av
          /\ e.pre_cd # {}
          /\ ~e.post_av
          /\ e.key \notin active_violations

\* the step is a pass of camera c's loop that calls _connect
AttemptsConnect(c) ==
    /\ lastOp'.cam = c
    /\ lastOp'.op \in {"connect_failed", "read_ok", "read_failed", "zero_division"}
    /\ stream[c].source_type # "image"
    /\ NotConnected(stream[c])

\* C39: reconnect_attempts stays between 0 and max_reconnect_attempts, is 0
\* whenever the stream holds an opened source, and every pass of the loop that
\* calls _connect starts with reconnect_attempts below max_reconnect_attempts.
C39_ReconnectAttemptsBounded ==
    /\ [](\A c \in Cameras :
            /\ stream[c].reconnect_attempts \in 0..max_reconnect_attempts
            /\ stream[c].cap = "open" => stream[c].reconnect_attempts = 0)
    /\ [][\A c \in Cameras :
            AttemptsConnect(c) =>
                stream[c].reconnect_attempts < max_reconnect_attempts]_vars

\* the last connect attempt the loop allows has failed
C39_Witness ==
    \E c \in Cameras :
        /\ lastOp.op = "connect_failed"
        /\ lastOp.cam = c
        /\ stream[c].reconnect_attempts = max_reconnect_attempts

====
